---- MODULE Spec2Model ----
(***************************************************************************)
(* A model of mdp (md-patch): the Markdown section/block parser, the       *)
(* heading-path resolver, the mutation engine, the diff generator and the  *)
(* command layer that reads and writes the target files.                   *)
(*                                                                         *)
(* Text is a sequence of one-character strings; every character of the     *)
(* model is ASCII, so a byte offset of the source is an index here         *)
(* (offset k is the position before element k+1).                          *)
(***************************************************************************)
EXTENDS Integers, Sequences, FiniteSets, TLC

VARIABLES files, bak, tmp, hist, rq

vars == <<files, bak, tmp, hist, rq>>

(***************************************************************************)
(* Bounds of the model.                                                    *)
(***************************************************************************)
\* lines of an initial document of the command specification
MaxLines == 3
\* heading lines and body lines of a document of the resolver specification
MaxSecLines == 4
\* how often a command is run again with the same arguments
MaxReruns == 1
\* operations of a batch
MaxBatch == 2
\* lines of a document of the block specification
MaxBlockLines == 4
\* lines of a text of the diff specification
MaxDiffLines == 3

(***************************************************************************)
(* Characters and strings (std::str).                                      *)
(***************************************************************************)
NL == "\n"
CR == "\r"
TAB == "\t"

\* char::is_whitespace, restricted to the characters of the model
IsWs(c) == c \in {" ", TAB, CR, NL}

IsDigit(c) == c \in {"0", "1", "2", "3", "4", "5", "6", "7", "8", "9"}

Max(a, b) == IF a > b THEN a ELSE b

Min(a, b) == IF a < b THEN a ELSE b

\* &s[from..] with a zero-based byte offset
Drop(s, from) == SubSeq(s, from + 1, Len(s))

\* &s[..to] with a zero-based byte offset
Take(s, to) == SubSeq(s, 1, to)

\* str::starts_with
StartsWith(s, p) == Len(s) >= Len(p) /\ SubSeq(s, 1, Len(p)) = p

\* str::contains for a string pattern
Contains(s, p) == \E k \in 0..(Len(s) - Len(p)) : SubSeq(s, k + 1, k + Len(p)) = p

\* str::contains for a char pattern
HasChar(s, c) == \E k \in 1..Len(s) : s[k] = c

\* number of leading characters of s that satisfy the set cs
RECURSIVE LeadRun(_, _)
LeadRun(s, cs) ==
    IF s # <<>> /\ Head(s) \in cs THEN 1 + LeadRun(Tail(s), cs) ELSE 0

\* number of trailing characters of s that lie in cs
RECURSIVE TrailRun(_, _)
TrailRun(s, cs) ==
    IF s # <<>> /\ s[Len(s)] \in cs THEN 1 + TrailRun(SubSeq(s, 1, Len(s) - 1), cs) ELSE 0

WsChars == {" ", TAB, CR, NL}

\* str::trim_start
TrimStart(s) == Drop(s, LeadRun(s, WsChars))

\* str::trim
Trim(s) ==
    LET t == TrimStart(s)
    IN  SubSeq(t, 1, Len(t) - TrailRun(t, WsChars))

\* str::trim_start_matches for a char pattern
TrimStartMatchesChar(s, c) == Drop(s, LeadRun(s, {c}))

\* str::trim_start_matches for a string pattern
RECURSIVE TrimStartMatches(_, _)
TrimStartMatches(s, p) ==
    IF p # <<>> /\ StartsWith(s, p) THEN TrimStartMatches(Drop(s, Len(p)), p) ELSE s

\* the pieces of s between its newline characters (n newlines give n+1 pieces)
RECURSIVE SplitNl(_, _)
SplitNl(s, cur) ==
    IF s = <<>> THEN <<cur>>
    ELSE IF Head(s) = NL THEN <<cur>> \o SplitNl(Tail(s), <<>>)
    ELSE SplitNl(Tail(s), Append(cur, Head(s)))

\* a line that was ended by "\r\n" loses its "\r" as well
StripCr(l) == IF l # <<>> /\ l[Len(l)] = CR THEN SubSeq(l, 1, Len(l) - 1) ELSE l

\* str::lines: split at "\n" or "\r\n"; a final empty line is not a line
Lines(s) ==
    LET p == SplitNl(s, <<>>)
        n == Len(p)
        terminated == [k \in 1..(n - 1) |-> StripCr(p[k])]
    IN  IF p[n] = <<>> THEN terminated ELSE Append(terminated, p[n])

\* the lines joined by "\n" (no newline after the last one)
RECURSIVE JoinNl(_)
JoinNl(ls) ==
    IF ls = <<>> THEN <<>>
    ELSE IF Len(ls) = 1 THEN ls[1]
    ELSE ls[1] \o <<NL>> \o JoinNl(Tail(ls))

\* str::split_whitespace
RECURSIVE SplitWhitespace(_, _)
SplitWhitespace(s, cur) ==
    IF s = <<>> THEN (IF cur = <<>> THEN <<>> ELSE <<cur>>)
    ELSE IF IsWs(Head(s))
         THEN (IF cur = <<>> THEN <<>> ELSE <<cur>>) \o SplitWhitespace(Tail(s), <<>>)
         ELSE SplitWhitespace(Tail(s), Append(cur, Head(s)))

(***************************************************************************)
(* Results: Ok(v), Err(e) of anyhow, and the two ways a call does not      *)
(* return: a panic (a slice or index out of range) and a loop that never   *)
(* ends.  Option values are None and Some(v).                              *)
(***************************************************************************)
Ok(v) == [kind |-> "Ok", v |-> v]

Err(e) == [kind |-> "Err", err |-> e]

Panic == [kind |-> "Panic"]

Hang == [kind |-> "Hang"]

None == [some |-> FALSE]

Some(v) == [some |-> TRUE, v |-> v]

(***************************************************************************)
(* The regular expressions of the parser (regex crate: \s is whitespace,   *)
(* . is any character but "\n", greedy with backtracking).                 *)
(***************************************************************************)
NoMatch == [matched |-> FALSE]

\* ^(#{1,6})\s+(.+)$ : the captures (1 = the hashes, 2 = the text).  The
\* whitespace run gives its last character back when nothing follows it.
HeadingCaps(line) ==
    LET k    == LeadRun(line, {"#"})
        w    == LeadRun(Drop(line, k), WsChars)
        rest == Drop(line, k + w)
    IN  IF k < 1 \/ k > 6 \/ w < 1 THEN NoMatch
        ELSE IF rest # <<>> THEN [matched |-> TRUE, hashes |-> Take(line, k), text |-> rest]
        ELSE IF w >= 2 THEN [matched |-> TRUE, hashes |-> Take(line, k), text |-> <<line[k + w]>>]
        ELSE NoMatch

\* ^([-*+]|\d+\.)\s
IsListItem(s) ==
    \/ Len(s) >= 2 /\ s[1] \in {"-", "*", "+"} /\ IsWs(s[2])
    \/ LET d == LeadRun(s, {"0", "1", "2", "3", "4", "5", "6", "7", "8", "9"})
       IN  d >= 1 /\ Len(s) >= d + 2 /\ s[d + 1] = "." /\ IsWs(s[d + 2])

\* ^([-*_]){3,}\s*$
IsThematicBreak(s) ==
    LET r == LeadRun(s, {"-", "*", "_"})
    IN  r >= 3 /\ LeadRun(Drop(s, r), WsChars) = Len(s) - r

\* the backquote: a TLA+ string cannot hold that character, "~" stands for it
BQ == "~"

Fence == <<BQ, BQ, BQ>>

(***************************************************************************)
(* Block classifier (parser.rs).  Line indexes are zero-based as in the    *)
(* source: line i of the source is lines[i + 1].                           *)
(***************************************************************************)
Block(start, end, content, block_type) ==
    [start |-> start, end |-> end, content |-> content, block_type |-> block_type]

SomeBlock(block, next) == [some |-> TRUE, block |-> block, next |-> next]

NoBlock == [some |-> FALSE]

\* Some((Block { start: start_offset, end: current_offset, content, block_type },
\* end + skip)) for the values r = [end, content, current_offset] a loop ends with
LoopBlock(start_offset, r, block_type, skip) ==
    SomeBlock(Block(start_offset, r.current_offset, r.content, block_type), r.end + skip)

\* the while loop of parse_code_block: [end, content, current_offset] at its exit
RECURSIVE CodeBlockLoop(_, _, _, _)
CodeBlockLoop(lines, end, content, current_offset) ==
    IF end < Len(lines)
    THEN LET line == lines[end + 1]
             c2   == content \o <<NL>> \o line
         IN  IF Trim(line) = Fence
             THEN [end |-> end, content |-> c2, current_offset |-> current_offset + Len(line)]
             ELSE CodeBlockLoop(lines, end + 1, c2, current_offset + Len(line) + 1)
    ELSE [end |-> end, content |-> content, current_offset |-> current_offset]

parse_code_block(lines, start, start_offset) ==
    LET first_line == lines[start + 1]
        lang0 == Trim(TrimStartMatchesChar(first_line, BQ))
    IN  LoopBlock(start_offset,
                  CodeBlockLoop(lines, start + 1, first_line,
                                start_offset + Len(first_line) + 1),
                  [tag |-> "CodeBlock", lang |-> lang0], 1)

\* content.push(newline) when content is not empty, then content.push_str(line)
PushLine(content, line) == IF content # <<>> THEN content \o <<NL>> \o line ELSE content \o line

\* the offset after the same step
PushOffset(content, current_offset, line) ==
    (IF content # <<>> THEN current_offset + 1 ELSE current_offset) + Len(line)

RECURSIVE TableLoop(_, _, _, _)
TableLoop(lines, end, content, current_offset) ==
    IF end < Len(lines)
    THEN LET line == lines[end + 1]
         IN  IF ~HasChar(line, "|") /\ Trim(line) # <<>>
             THEN [end |-> end, content |-> content, current_offset |-> current_offset]
             ELSE IF Trim(line) = <<>>
                  THEN [end |-> end + 1, content |-> PushLine(content, line),
                        current_offset |-> PushOffset(content, current_offset, line)]
                  ELSE TableLoop(lines, end + 1, PushLine(content, line),
                                 PushOffset(content, current_offset, line))
    ELSE [end |-> end, content |-> content, current_offset |-> current_offset]

parse_table(lines, start, start_offset) ==
    LoopBlock(start_offset, TableLoop(lines, start, <<>>, start_offset), [tag |-> "Table"], 0)

RECURSIVE BlockQuoteLoop(_, _, _, _)
BlockQuoteLoop(lines, end, content, current_offset) ==
    IF end < Len(lines)
    THEN LET line == lines[end + 1]
         IN  IF ~StartsWith(line, <<">">>) /\ Trim(line) # <<>>
             THEN [end |-> end, content |-> content, current_offset |-> current_offset]
             ELSE BlockQuoteLoop(lines, end + 1, PushLine(content, line),
                                 PushOffset(content, current_offset, line))
    ELSE [end |-> end, content |-> content, current_offset |-> current_offset]

parse_block_quote(lines, start, start_offset) ==
    LoopBlock(start_offset, BlockQuoteLoop(lines, start, <<>>, start_offset),
              [tag |-> "BlockQuote"], 0)

RECURSIVE ListLoop(_, _, _, _)
ListLoop(lines, end, content, current_offset) ==
    IF end < Len(lines)
    THEN LET line == lines[end + 1]
             is_list_item == IsListItem(Trim(line))
             is_indented  == \/ StartsWith(line, <<" ", " ">>)
                             \/ StartsWith(line, <<TAB>>)
                             \/ Trim(line) = <<>>
         IN  IF ~is_list_item /\ ~is_indented /\ Trim(line) # <<>>
             THEN [end |-> end, content |-> content, current_offset |-> current_offset]
             ELSE ListLoop(lines, end + 1, PushLine(content, line),
                           PushOffset(content, current_offset, line))
    ELSE [end |-> end, content |-> content, current_offset |-> current_offset]

parse_list(lines, start, start_offset) ==
    LET first_line == lines[start + 1]
        ordered == IsDigit(Head(Trim(first_line)))
    IN  LoopBlock(start_offset, ListLoop(lines, start, <<>>, start_offset),
                  [tag |-> "List", ordered |-> ordered], 0)

RECURSIVE HtmlLoop(_, _, _, _, _)
HtmlLoop(lines, end, content, current_offset, tag_stack) ==
    IF end < Len(lines)
    THEN LET line == lines[end + 1]
             closes == Contains(line, <<"<", "/">>)
             s1 == IF HasChar(line, "<") /\ ~closes THEN tag_stack + 1 ELSE tag_stack
             s2 == IF closes THEN s1 - 1 ELSE s1
         IN  IF Trim(line) = <<>> /\ tag_stack = 0
             THEN [end |-> end, content |-> content, current_offset |-> current_offset]
             ELSE HtmlLoop(lines, end + 1, PushLine(content, line),
                           PushOffset(content, current_offset, line), s2)
    ELSE [end |-> end, content |-> content, current_offset |-> current_offset]

parse_html_block(lines, start, start_offset) ==
    LoopBlock(start_offset, HtmlLoop(lines, start, <<>>, start_offset, 0), [tag |-> "Html"], 0)

\* ParagraphLoop without the test for a heading marker
RECURSIVE ParagraphLoop_past_headings(_, _, _, _)
ParagraphLoop_past_headings(lines, end, content, current_offset) ==
    IF end < Len(lines)
    THEN LET line == lines[end + 1]
         IN  IF \/ Trim(line) = <<>>
                \/ StartsWith(line, Fence)
                \/ StartsWith(line, <<">">>)
                \/ IsListItem(line)
                \/ IsThematicBreak(line)
             THEN [end |-> end, content |-> content, current_offset |-> current_offset]
             ELSE ParagraphLoop_past_headings(lines, end + 1, PushLine(content, line),
                                              PushOffset(content, current_offset, line))
    ELSE [end |-> end, content |-> content, current_offset |-> current_offset]

\* the while loop of parse_paragraph
RECURSIVE ParagraphLoop(_, _, _, _)
ParagraphLoop(lines, end, content, current_offset) ==
    IF end < Len(lines)
    THEN LET line == lines[end + 1]
         IN  IF \/ Trim(line) = <<>>
                \/ StartsWith(line, Fence)
                \/ StartsWith(line, <<"#">>)
                \/ StartsWith(line, <<">">>)
                \/ IsListItem(line)
                \/ IsThematicBreak(line)
             THEN [end |-> end, content |-> content, current_offset |-> current_offset]
             ELSE ParagraphLoop(lines, end + 1, PushLine(content, line),
                                PushOffset(content, current_offset, line))
    ELSE [end |-> end, content |-> content, current_offset |-> current_offset]

\* if content.is_empty() { return Ok(None) }, else the paragraph
ParagraphBlock(start_offset, r) ==
    IF r.content = <<>> THEN NoBlock
    ELSE LoopBlock(start_offset, r, [tag |-> "Paragraph"], 0)

parse_paragraph(lines, start, start_offset) ==
    ParagraphBlock(start_offset, ParagraphLoop(lines, start, <<>>, start_offset))

parse_block(lines, start, start_offset) ==
    IF start >= Len(lines) THEN NoBlock
    ELSE LET line == Trim(lines[start + 1])
         IN  IF line = <<>> THEN NoBlock
             ELSE IF StartsWith(line, Fence) THEN parse_code_block(lines, start, start_offset)
             ELSE IF HasChar(line, "|") THEN parse_table(lines, start, start_offset)
             ELSE IF StartsWith(line, <<">">>) THEN parse_block_quote(lines, start, start_offset)
             ELSE IF IsListItem(line) THEN parse_list(lines, start, start_offset)
             ELSE IF StartsWith(line, <<"<">>) /\ ~StartsWith(line, <<"<", "!", "-", "-">>)
                  THEN parse_html_block(lines, start, start_offset)
             ELSE IF IsThematicBreak(line)
                  THEN SomeBlock(Block(start_offset, start_offset + Len(lines[start + 1]),
                                       lines[start + 1], [tag |-> "ThematicBreak"]),
                                 start + 1)
             ELSE parse_paragraph(lines, start, start_offset)

(***************************************************************************)
(* Section builder (parser.rs, parse_sections).                            *)
(***************************************************************************)
Section(heading, heading_level, heading_start, heading_end, blocks) ==
    [heading |-> heading, heading_level |-> heading_level,
     heading_start |-> heading_start, heading_end |-> heading_end, blocks |-> blocks]

\* Option<Section>
NoSection == [open |-> FALSE]

OpenSection(s) == [open |-> TRUE, section |-> s]

\* the sum of lines[i + j].len() + 1 for j in 0..lines_consumed
RECURSIVE ConsumedLen(_, _, _)
ConsumedLen(lines, i, lines_consumed) ==
    IF lines_consumed = 0 THEN 0
    ELSE Len(lines[i + 1]) + 1 + ConsumedLen(lines, i + 1, lines_consumed - 1)

\* sections after "Close previous section"
Closed(sections, current_section) ==
    IF current_section.open THEN Append(sections, current_section.section) ELSE sections

\* The while loop of parse_sections.  A block that consumes no line leaves
\* i and current_offset as they were: the loop then repeats the same
\* iteration for ever, pushing one more block each time ("Hang").
RECURSIVE SectionsLoop(_, _, _, _, _)
\* one iteration, for the captures caps of the heading regex on the line and
\* the result pb of parse_block at the line
SectionsStep(lines, i, current_offset, sections, current_section, caps, pb) ==
    IF caps.matched
    THEN SectionsLoop(lines, i + 1, current_offset + Len(lines[i + 1]) + 1,
             Closed(sections, current_section),
             OpenSection(Section(caps.hashes \o <<" ">> \o caps.text, Len(caps.hashes),
                                 current_offset, current_offset + Len(lines[i + 1]), <<>>)))
    ELSE IF current_section.open /\ pb.some
    THEN IF pb.next = i THEN Hang
         ELSE SectionsLoop(lines, pb.next,
                  current_offset + ConsumedLen(lines, i, pb.next - i), sections,
                  OpenSection([current_section.section EXCEPT
                                  !.blocks = Append(@, pb.block)]))
    ELSE SectionsLoop(lines, i + 1, current_offset + Len(lines[i + 1]) + 1,
                      sections, current_section)

SectionsLoop(lines, i, current_offset, sections, current_section) ==
    IF i < Len(lines)
    THEN SectionsStep(lines, i, current_offset, sections, current_section,
                      HeadingCaps(lines[i + 1]), parse_block(lines, i, current_offset))
    ELSE Ok(Closed(sections, current_section))

parse_sections(content) == SectionsLoop(Lines(content), 0, 0, <<>>, NoSection)

(***************************************************************************)
(* Heading-path resolver and block locator (parser.rs).                    *)
(***************************************************************************)
\* Candidates with the section heading compared as it is stored, untrimmed
RECURSIVE Candidates_untrimmed(_, _, _)
Candidates_untrimmed(sections, h, k) ==
    IF k > Len(sections) THEN <<>>
    ELSE (IF sections[k].heading = h THEN <<k>> ELSE <<>>)
         \o Candidates_untrimmed(sections, h, k + 1)

\* the one-based positions of the sections whose trimmed heading is h, in order
RECURSIVE Candidates(_, _, _)
Candidates(sections, h, k) ==
    IF k > Len(sections) THEN <<>>
    ELSE (IF Trim(sections[k].heading) = h THEN <<k>> ELSE <<>>)
         \o Candidates(sections, h, k + 1)

\* sections.iter().position(|s| s.heading == heading), zero-based
Position(sections, heading) ==
    CHOOSE k \in 0..(Len(sections) - 1) :
        /\ sections[k + 1].heading = heading
        /\ \A m \in 0..(k - 1) : sections[m + 1].heading # heading

\* ScanSections leaving the scope only at a level below the first level
RECURSIVE ScanSections_strict(_, _, _, _)
ScanSections_strict(sections, idx, target_heading, first_level) ==
    IF idx >= Len(sections) THEN -1
    ELSE LET section == sections[idx + 1]
             section_level == LeadRun(section.heading, {"#"})
         IN  IF section_level < first_level THEN -1
             ELSE IF Trim(section.heading) = target_heading THEN idx
             ELSE ScanSections_strict(sections, idx + 1, target_heading, first_level)

\* The inner for loop over sections.iter().enumerate().skip(section_idx + 1),
\* idx zero-based: the index it breaks at with found = true, or -1.
RECURSIVE ScanSections(_, _, _, _)
ScanSections(sections, idx, target_heading, first_level) ==
    IF idx >= Len(sections) THEN -1
    ELSE LET section == sections[idx + 1]
             section_level == LeadRun(section.heading, {"#"})
         IN  IF section_level <= first_level THEN -1
             ELSE IF Trim(section.heading) = target_heading THEN idx
             ELSE ScanSections(sections, idx + 1, target_heading, first_level)

\* the outer for loop, i in 1..heading_path.len(): Ok(zero-based index) or Err
RECURSIVE PathLoop(_, _, _, _, _)
PathLoop(sections, heading_path, i, section_idx, first_level) ==
    IF i >= Len(heading_path) THEN Ok(section_idx)
    ELSE LET target_heading == Trim(heading_path[i + 1])
             found == ScanSections(sections, section_idx + 1, target_heading, first_level)
         IN  IF found < 0
             THEN Err([kind |-> "SubheadingNotFound", heading |-> target_heading])
             ELSE PathLoop(sections, heading_path, i + 1, found, first_level)

\* FirstCandidate taking the last candidate
FirstCandidate_last(candidates) == candidates[Len(candidates)]

\* let mut current_section = candidates[0]: the one-based position of it
FirstCandidate(candidates) == candidates[1]

\* Ok(zero-based index of the section the returned reference points to) or Err
find_section(sections, heading_path) ==
    IF heading_path = <<>> THEN Err([kind |-> "EmptyHeadingPath"])
    ELSE LET first_heading == Trim(heading_path[1])
             first_level   == LeadRun(first_heading, {"#"})
             candidates    == Candidates(sections, first_heading, 1)
         IN  IF candidates = <<>>
             THEN Err([kind |-> "HeadingNotFound", heading |-> first_heading])
             ELSE IF Len(heading_path) = 1
             THEN IF Len(candidates) > 1
                  THEN Err([kind |-> "AmbiguousHeading", heading |-> first_heading,
                            suggestion |-> Trim(TrimStartMatchesChar(first_heading, "#"))])
                  ELSE Ok(candidates[1] - 1)
             ELSE PathLoop(sections, heading_path, 1,
                           Position(sections, sections[FirstCandidate(candidates)].heading),
                           first_level)

\* get_block counting the blocks from the end of the section
get_block_from_end(section, index) ==
    IF index >= Len(section.blocks)
    THEN Err([kind |-> "BlockIndexOutOfRange", index |-> index,
              available |-> Len(section.blocks)])
    ELSE Ok(section.blocks[Len(section.blocks) - index])

get_block(section, index) ==
    IF index >= Len(section.blocks)
    THEN Err([kind |-> "BlockIndexOutOfRange", index |-> index,
              available |-> Len(section.blocks)])
    ELSE Ok(section.blocks[index + 1])

(***************************************************************************)
(* Fingerprints: the regular expressions of the model are made of literal  *)
(* characters, "." (any character but a newline) and a postfix "*".        *)
(***************************************************************************)
\* Regex::new fails on a pattern that starts with the repetition operator
ValidRegex(pat) == pat = <<>> \/ pat[1] # "*"

CharMatches(p, c) == IF p = "." THEN c # NL ELSE p = c

RECURSIVE MatchHere(_, _)
MatchHere(pat, text) ==
    IF pat = <<>> THEN TRUE
    ELSE IF Len(pat) >= 2 /\ pat[2] = "*"
    THEN \/ MatchHere(Drop(pat, 2), text)
         \/ text # <<>> /\ CharMatches(pat[1], text[1]) /\ MatchHere(pat, Tail(text))
    ELSE text # <<>> /\ CharMatches(pat[1], text[1]) /\ MatchHere(Tail(pat), Tail(text))

\* Regex::is_match: the pattern matches somewhere in the text
IsMatch(pat, text) == \E k \in 0..Len(text) : MatchHere(pat, Drop(text, k))

(***************************************************************************)
(* Mutation engine (patch.rs).                                             *)
(***************************************************************************)
apply_append(content, block, new_content) ==
    IF ~new_content.some THEN Err([kind |-> "MissingContent", op |-> "Append"])
    ELSE IF block.start > Len(content) THEN Panic
    ELSE IF Contains(Drop(content, block.start), new_content.v) THEN Ok(content)
    ELSE IF block.end > Len(content) THEN Panic
    ELSE Ok(Take(content, block.end) \o <<NL>> \o new_content.v \o <<NL>>
            \o Drop(content, block.end))

apply_replace(content, block, new_content) ==
    IF ~new_content.some THEN Err([kind |-> "MissingContent", op |-> "Replace"])
    ELSE IF block.start > Len(content) \/ block.end > Len(content) THEN Panic
    ELSE Ok(Take(content, block.start) \o new_content.v \o Drop(content, block.end))

\* Regex \n{3,} replace_all with two newlines
RECURSIVE CollapseNewlines(_)
CollapseNewlines(s) ==
    IF s = <<>> THEN <<>>
    ELSE LET r == LeadRun(s, {NL})
         IN  IF r >= 3 THEN <<NL, NL>> \o CollapseNewlines(Drop(s, r))
             ELSE IF r >= 1 THEN Take(s, r) \o CollapseNewlines(Drop(s, r))
             ELSE <<Head(s)>> \o CollapseNewlines(Tail(s))

apply_delete(content, block) ==
    IF block.start > Len(content) \/ block.end > Len(content) THEN Panic
    ELSE Ok(CollapseNewlines(Take(content, block.start) \o Drop(content, block.end)))

(***************************************************************************)
(* Diff generator (patch.rs).  A diff is the sequence of its lines.        *)
(***************************************************************************)
\* one row of the table dp: dp[i][0..n] from dp[i - 1][0..n], built for j = 1..n
RECURSIVE DpRow(_, _, _, _, _)
DpRow(ai, b, prev, j, row) ==
    IF j > Len(b) THEN row
    ELSE DpRow(ai, b, prev, j + 1,
               Append(row, IF ai = b[j] THEN prev[j] + 1 ELSE Max(prev[j + 1], row[j])))

\* the table dp as the sequence of its rows: dp[i][j] is table[i + 1][j + 1]
RECURSIVE DpTable(_, _, _, _)
DpTable(a, b, i, table) ==
    IF i > Len(a) THEN table
    ELSE DpTable(a, b, i + 1, Append(table, DpRow(a[i], b, table[i], 1, <<0>>)))

\* the backtracking loop: the lines pushed, in the order pushed
RECURSIVE Backtrack(_, _, _, _, _, _)
Backtrack(a, b, dp, i, j, lcs) ==
    IF i > 0 /\ j > 0
    THEN IF a[i] = b[j] THEN Backtrack(a, b, dp, i - 1, j - 1, Append(lcs, a[i]))
         ELSE IF dp[i][j + 1] > dp[i + 1][j] THEN Backtrack(a, b, dp, i - 1, j, lcs)
         ELSE Backtrack(a, b, dp, i, j - 1, lcs)
    ELSE lcs

Reverse(s) == [k \in 1..Len(s) |-> s[Len(s) + 1 - k]]

\* compute_lcs without lcs.reverse()
compute_lcs_unreversed(a, b) ==
    IF Len(a) = 0 \/ Len(b) = 0 THEN <<>>
    ELSE LET dp == DpTable(a, b, 1, <<[k \in 1..(Len(b) + 1) |-> 0]>>)
         IN  Backtrack(a, b, dp, Len(a), Len(b), <<>>)

compute_lcs(a, b) ==
    IF Len(a) = 0 \/ Len(b) = 0 THEN <<>>
    ELSE LET dp == DpTable(a, b, 1, <<[k \in 1..(Len(b) + 1) |-> 0]>>)
         IN  Reverse(Backtrack(a, b, dp, Len(a), Len(b), <<>>))

\* the walk of generate_diff over both line sequences; i, j, lcs_idx zero-based
RECURSIVE DiffWalk(_, _, _, _, _, _, _)
DiffWalk(original_lines, modified_lines, lcs, i, j, lcs_idx, diff) ==
    IF i < Len(original_lines) \/ j < Len(modified_lines)
    THEN IF lcs_idx < Len(lcs)
         THEN IF /\ i < Len(original_lines)
                 /\ j < Len(modified_lines)
                 /\ original_lines[i + 1] = modified_lines[j + 1]
                 /\ original_lines[i + 1] = lcs[lcs_idx + 1]
              THEN DiffWalk(original_lines, modified_lines, lcs, i + 1, j + 1, lcs_idx + 1,
                            Append(diff, <<" ">> \o original_lines[i + 1]))
              ELSE IF i < Len(original_lines) /\ original_lines[i + 1] # lcs[lcs_idx + 1]
              THEN DiffWalk(original_lines, modified_lines, lcs, i + 1, j, lcs_idx,
                            Append(diff, <<"-">> \o original_lines[i + 1]))
              ELSE IF j >= Len(modified_lines) THEN Panic
              ELSE DiffWalk(original_lines, modified_lines, lcs, i, j + 1, lcs_idx,
                            Append(diff, <<"+">> \o modified_lines[j + 1]))
         ELSE IF i < Len(original_lines)
         THEN DiffWalk(original_lines, modified_lines, lcs, i + 1, j, lcs_idx,
                       Append(diff, <<"-">> \o original_lines[i + 1]))
         ELSE DiffWalk(original_lines, modified_lines, lcs, i, j + 1, lcs_idx,
                       Append(diff, <<"+">> \o modified_lines[j + 1]))
    ELSE Ok(diff)

\* the two header lines of a diff
DiffHeader(filename) ==
    << <<"-", "-", "-", " ", "a", "/">> \o filename,
       <<"+", "+", "+", " ", "b", "/">> \o filename >>

generate_diff(original, modified, filename) ==
    LET original_lines == Lines(original)
        modified_lines == Lines(modified)
        lcs == compute_lcs(original_lines, modified_lines)
    IN  DiffWalk(original_lines, modified_lines, lcs, 0, 0, 0, DiffHeader(filename))

\* the lines of a diff after its header
DiffBody(diff) == SubSeq(diff, 3, Len(diff))

\* the body has no added and no removed line
NoChangeLines(diff) == \A k \in 1..Len(DiffBody(diff)) : DiffBody(diff)[k][1] = " "

(***************************************************************************)
(* apply_operation (patch.rs).  An operation is a PatchOperation record:   *)
(* [file, heading_path, block_index, operation, content, fingerprint].     *)
(***************************************************************************)
\* Destructive without Replace
Destructive_delete_only == {"Delete"}

\* the operations of the destructive gate
Destructive == {"Replace", "Delete"}

\* the mutation step: the match on operation.operation
Mutate(content, block, operation) ==
    IF operation.operation = "Append" THEN apply_append(content, block, operation.content)
    ELSE IF operation.operation = "Replace"
    THEN apply_replace(content, block, operation.content)
    ELSE apply_delete(content, block)

\* PatchResult returning the new text in every mode
PatchResult_always_applied(new_content, diff, force) ==
    [kind |-> "Applied", new_content |-> new_content, diff |-> diff]

\* the result of apply_operation: the new text is returned in force mode only
PatchResult(new_content, diff, force) ==
    IF force THEN [kind |-> "Applied", new_content |-> new_content, diff |-> diff]
    ELSE [kind |-> "DryRun", diff |-> diff]

\* the result, once the diff is generated
DiffResult(new_content, diff, force) ==
    IF diff.kind # "Ok" THEN diff ELSE PatchResult(new_content, diff.v, force)

\* apply_operation from the value of new_content on
MutationResult(content, new_content, operation, force) ==
    IF new_content.kind # "Ok" THEN new_content
    ELSE DiffResult(new_content.v,
             generate_diff(content, new_content.v,
                 TrimStartMatchesChar(TrimStartMatches(operation.file, <<".", "/">>), "/")),
             force)

\* ApplyToBlock with the destructive gate first, closed by force alone
ApplyToBlock_gate_first(content, block, operation, force) ==
    IF operation.operation \in Destructive /\ ~force
    THEN Err([kind |-> "UnsafeDestructiveOperation"])
    ELSE IF operation.fingerprint.some /\ ~ValidRegex(operation.fingerprint.v)
    THEN Err([kind |-> "InvalidRegex"])
    ELSE IF operation.fingerprint.some /\ ~IsMatch(operation.fingerprint.v, block.content)
    THEN Err([kind |-> "FingerprintMismatch", fingerprint |-> operation.fingerprint.v])
    ELSE MutationResult(content, Mutate(content, block, operation), operation, force)

\* what apply_operation does once the block is resolved
ApplyToBlock(content, block, operation, force) ==
    IF operation.fingerprint.some /\ ~ValidRegex(operation.fingerprint.v)
    THEN Err([kind |-> "InvalidRegex"])
    ELSE IF operation.fingerprint.some /\ ~IsMatch(operation.fingerprint.v, block.content)
    THEN Err([kind |-> "FingerprintMismatch", fingerprint |-> operation.fingerprint.v])
    ELSE IF operation.operation \in Destructive /\ ~operation.fingerprint.some /\ ~force
    THEN Err([kind |-> "UnsafeDestructiveOperation"])
    ELSE MutationResult(content, Mutate(content, block, operation), operation, force)

\* the first three steps of apply_operation: the block the operation
\* addresses (let block = get_block(section, operation.block_index)?)
BlockOf(sections, section, operation) ==
    IF section.kind # "Ok" THEN section
    ELSE get_block(sections[section.v + 1], operation.block_index)

\* the same from the value of sections on
SectionOf(sections, operation) ==
    IF sections.kind # "Ok" THEN sections
    ELSE BlockOf(sections.v, find_section(sections.v, operation.heading_path), operation)

\* the same from the start
ResolveBlock(content, operation) == SectionOf(parse_sections(content), operation)

\* apply_operation from the value of block on
ApplyResolved(content, block, operation, force) ==
    IF block.kind # "Ok" THEN block ELSE ApplyToBlock(content, block.v, operation, force)

apply_operation(content, operation, force) ==
    ApplyResolved(content, ResolveBlock(content, operation), operation, force)

(***************************************************************************)
(* The command layer (main.rs, config.rs).  The file system is the three   *)
(* variables files, bak and tmp: the content (an Option) of each target    *)
(* file, of its backup file.with_extension("bak") and of its temporary     *)
(* file.with_extension("md.tmp").  File system calls are taken to succeed, *)
(* but for reading a file that does not exist.                             *)
(***************************************************************************)
FileF == <<"f">>

FileG == <<".", "/", "g">>

FileNames == {FileF, FileG}

\* the file system as one value
Fs(f, b, t) == [files |-> f, bak |-> b, tmp |-> t]

\* atomic_write: the file system after it, and the file system calls it made
atomic_write(fs, file, content, no_backup) ==
    LET backup == ~no_backup /\ fs.files[file].some
        b2 == IF backup THEN [fs.bak EXCEPT ![file] = fs.files[file]] ELSE fs.bak
        t2 == [fs.tmp EXCEPT ![file] = Some(content)]
        \* std::fs::rename: the temporary file becomes the target
        f3 == [fs.files EXCEPT ![file] = t2[file]]
        t3 == [t2 EXCEPT ![file] = None]
    IN  [fs |-> Fs(f3, b2, t3),
         fsops |-> (IF backup THEN <<[call |-> "copy", file |-> file]>> ELSE <<>>)
                   \o <<[call |-> "write", file |-> file], [call |-> "rename", file |-> file]>>]

\* a word made of "#" only
IsMarker(word) == word # <<>> /\ LeadRun(word, {"#"}) = Len(word)

\* the for loop of parse_heading_path: [headings, current] at its end
RECURSIVE HeadingPathLoop(_, _, _, _)
HeadingPathLoop(words, headings, current, in_heading) ==
    IF words = <<>> THEN [headings |-> headings, current |-> current]
    ELSE LET word == Head(words)
         IN  IF IsMarker(word)
             THEN HeadingPathLoop(Tail(words),
                      IF current # <<>> THEN Append(headings, Trim(current)) ELSE headings,
                      word, TRUE)
             ELSE IF in_heading
             THEN HeadingPathLoop(Tail(words), headings, current \o <<" ">> \o word, TRUE)
             ELSE HeadingPathLoop(Tail(words), headings, current, in_heading)

parse_heading_path(path) ==
    LET r == HeadingPathLoop(SplitWhitespace(path, <<>>), <<>>, <<>>, FALSE)
        headings == IF r.current # <<>> THEN Append(r.headings, Trim(r.current))
                    ELSE r.headings
    IN  IF headings = <<>> THEN Err([kind |-> "InvalidHeadingPath"]) ELSE Ok(headings)

\* PatchOperation
PatchOperation(file, heading_path, block_index, operation, content, fingerprint) ==
    [file |-> file, heading_path |-> heading_path, block_index |-> block_index,
     operation |-> operation, content |-> content, fingerprint |-> fingerprint]

\* the record of one call of apply_operation: its arguments, the value of
\* its local variable block, and what it returned
CallOf(content, operation, force, block) ==
    [content |-> content, operation |-> operation, force |-> force, block |-> block,
     result |-> ApplyResolved(content, block, operation, force)]

Call(content, operation, force) ==
    CallOf(content, operation, force, ResolveBlock(content, operation))

\* The record of one run of the program: the command, the file system before it,
\* how it ended (status "Ok", "Err", "Panic" or "Hang", and the error), the
\* calls of apply_operation it made and the file system calls it made.
Outcome(cmd, pre, status, err, calls, fsops) ==
    [cmd |-> cmd, pre |-> pre, status |-> status, err |-> err, calls |-> calls,
     fsops |-> fsops]

NoErr == [kind |-> "None"]

\* how a run ends when apply_operation did not return Ok
Failed(cmd, fs, calls) ==
    LET r == calls[Len(calls)].result
    IN  [fs |-> fs,
         out |-> Outcome(cmd, fs, r.kind, IF r.kind = "Err" THEN r.err ELSE NoErr,
                         calls, <<>>)]

\* how a run ends after the writes w = [fs, fsops] of its results
Wrote(cmd, fs, calls, w) ==
    [fs |-> w.fs, out |-> Outcome(cmd, fs, "Ok", NoErr, calls, w.fsops)]

\* run(), Commands::Patch, from the match on the result of apply_operation on
PatchDone(fs, cmd, call) ==
    IF call.result.kind = "Applied"
    THEN Wrote(cmd, fs, <<call>>,
               atomic_write(fs, cmd.file, call.result.new_content, cmd.no_backup))
    ELSE IF call.result.kind = "DryRun"
    THEN [fs |-> fs, out |-> Outcome(cmd, fs, "Ok", NoErr, <<call>>, <<>>)]
    ELSE Failed(cmd, fs, <<call>>)

\* run(), Commands::Patch, from the value path of parse_heading_path on
PatchAt(fs, cmd, path) ==
    LET content == IF cmd.op = "Delete" THEN None ELSE cmd.content
        fail(e) == [fs |-> fs, out |-> Outcome(cmd, fs, "Err", e, <<>>, <<>>)]
    IN  IF cmd.op # "Delete" /\ ~cmd.content.some THEN fail([kind |-> "ContentRequired"])
        ELSE IF path.kind # "Ok" THEN fail(path.err)
        ELSE IF ~fs.files[cmd.file].some THEN fail([kind |-> "Io", file |-> cmd.file])
        ELSE PatchDone(fs, cmd,
                 Call(fs.files[cmd.file].v,
                      PatchOperation(cmd.file, path.v, cmd.index, cmd.op, content,
                                     cmd.fingerprint),
                      cmd.force))

\* run(), Commands::Patch
RunPatch(fs, cmd) == PatchAt(fs, cmd, parse_heading_path(cmd.heading))

\* load_config, after deserialization: the position of the first operation
\* that fails validation (zero-based), or -1
RECURSIVE FirstInvalid(_, _)
FirstInvalid(operations, i) ==
    IF i >= Len(operations) THEN -1
    ELSE LET op == operations[i + 1]
         IN  IF op.heading = <<>> THEN i
             ELSE IF op.operation \in {"Append", "Replace"} /\ ~op.content.some THEN i
             ELSE FirstInvalid(operations, i + 1)

load_config(operations) ==
    LET i == FirstInvalid(operations, 0)
    IN  IF i >= 0
        THEN Err([kind |-> "InvalidConfig", operation |-> i + 1,
                  content |-> operations[i + 1].heading # <<>>])
        ELSE Ok(operations)

\* The first pass of apply_batch: the calls made, in order.  The pass ends
\* at the first file that cannot be read ("Io") and at the first call that
\* does not return a result.
RECURSIVE FirstPass(_, _, _, _)
\* one iteration, from the match on the result of apply_operation on
FirstPassStep(fs, operations, force, calls, call) ==
    IF call.result.kind \in {"Applied", "DryRun"}
    THEN FirstPass(fs, Tail(operations), force, Append(calls, call))
    ELSE [calls |-> Append(calls, call), io |-> None]

FirstPass(fs, operations, force, calls) ==
    IF operations = <<>> THEN [calls |-> calls, io |-> None]
    ELSE LET op_config == Head(operations)
         IN  IF ~fs.files[op_config.file].some
             THEN [calls |-> calls, io |-> Some(op_config.file)]
             ELSE FirstPassStep(fs, operations, force, calls,
                      Call(fs.files[op_config.file].v,
                           PatchOperation(op_config.file, op_config.heading,
                                          op_config.index, op_config.operation,
                                          op_config.content, op_config.fingerprint),
                           force))

\* the second pass of apply_batch: one atomic_write for each Applied result
RECURSIVE SecondPass(_, _, _, _, _)
SecondPass(fs, calls, k, no_backup, fsops) ==
    IF k > Len(calls) THEN [fs |-> fs, fsops |-> fsops]
    ELSE IF calls[k].result.kind = "Applied"
    THEN LET w == atomic_write(fs, calls[k].operation.file, calls[k].result.new_content,
                               no_backup)
         IN  SecondPass(w.fs, calls, k + 1, no_backup, fsops \o w.fsops)
    ELSE SecondPass(fs, calls, k + 1, no_backup, fsops)

\* every operation of the batch returned a result in the first pass
AllValid(operations, p1) ==
    /\ Len(p1.calls) = Len(operations)
    /\ \A k \in 1..Len(p1.calls) : p1.calls[k].result.kind \in {"Applied", "DryRun"}

\* BatchDone writing the results of the first pass before it bails
BatchDone_no_bail(fs, cmd, operations, force, no_backup, p1) ==
    IF p1.io.some
    THEN [fs |-> fs,
          out |-> Outcome(cmd, fs, "Err", [kind |-> "Io", file |-> p1.io.v], p1.calls, <<>>)]
    ELSE IF ~AllValid(operations, p1)
    THEN LET w == SecondPass(fs, p1.calls, 1, no_backup, <<>>)
         IN  [fs |-> w.fs, out |-> [Failed(cmd, fs, p1.calls).out EXCEPT !.fsops = w.fsops]]
    ELSE IF force
    THEN Wrote(cmd, fs, p1.calls, SecondPass(fs, p1.calls, 1, no_backup, <<>>))
    ELSE [fs |-> fs, out |-> Outcome(cmd, fs, "Ok", NoErr, p1.calls, <<>>)]

\* apply_batch once the first pass has ended with p1 = [calls, io]
BatchDone(fs, cmd, operations, force, no_backup, p1) ==
    IF p1.io.some
    THEN [fs |-> fs,
          out |-> Outcome(cmd, fs, "Err", [kind |-> "Io", file |-> p1.io.v], p1.calls, <<>>)]
    ELSE IF ~AllValid(operations, p1) THEN Failed(cmd, fs, p1.calls)
    ELSE IF force
    THEN Wrote(cmd, fs, p1.calls, SecondPass(fs, p1.calls, 1, no_backup, <<>>))
    ELSE [fs |-> fs, out |-> Outcome(cmd, fs, "Ok", NoErr, p1.calls, <<>>)]

apply_batch(fs, cmd, operations, force, no_backup) ==
    BatchDone(fs, cmd, operations, force, no_backup, FirstPass(fs, operations, force, <<>>))

\* run(), Commands::Apply and Commands::Plan
RunBatch(fs, cmd) ==
    LET operations == load_config(cmd.operations)
        force     == IF cmd.cmd = "plan" THEN FALSE ELSE cmd.force
        no_backup == IF cmd.cmd = "plan" THEN TRUE ELSE cmd.no_backup
    IN  IF operations.kind # "Ok"
        THEN [fs |-> fs, out |-> Outcome(cmd, fs, "Err", operations.err, <<>>, <<>>)]
        ELSE apply_batch(fs, cmd, operations.v, force, no_backup)

\* run()
Exec(fs, cmd) == IF cmd.cmd = "patch" THEN RunPatch(fs, cmd) ELSE RunBatch(fs, cmd)

(***************************************************************************)
(* The inputs of the model.                                                *)
(***************************************************************************)
\* the sequences over S of length 0..n
SeqsUpTo(S, n) == UNION {[1..k -> S] : k \in 0..n}

LineA == <<"#", " ", "A">>

LineB == <<"#", " ", "B">>

LineS == <<"#", "#", " ", "S">>

\* the same heading with a space after it
LineSsp == <<"#", "#", " ", "S", " ">>

LineT == <<"#", "#", "#", " ", "T">>

LineX == <<"x">>

LineY == <<"y">>

\* a thematic break: a block of one line
LineHr == <<"-", "-", "-">>

\* the lines of the initial documents: two headings, a blank line, a
\* paragraph line and a code fence
LineSet == {LineA, LineS, <<>>, LineX, Fence}

\* the initial documents of file f: up to MaxLines lines joined by newlines
\* (a last empty line gives the document its final newline)
Docs == {JoinNl(ls) : ls \in SeqsUpTo(LineSet, MaxLines)}

\* the initial document of file g
DocG == JoinNl(<<LineA, <<>>, LineX, <<>>>>)

Indexes == {0, 1}

\* --heading arguments: one heading, and a parent with a child
HeadingArgs == {LineA, LineA \o <<" ">> \o LineS}

\* --op and --content
OpArgs ==
    {[op |-> "Append", content |-> Some(LineX)],
     [op |-> "Append", content |-> Some(LineY)],
     [op |-> "Append", content |-> Some(LineA)],
     [op |-> "Replace", content |-> Some(LineY)],
     [op |-> "Delete", content |-> None]}

\* --fingerprint: none, one that matches a block with an x, one that matches
\* no block of the documents
Fingerprints == {None, Some(<<"x">>), Some(<<"z">>)}

\* --force and --no-backup (the second matters with the first only)
Modes == {[force |-> FALSE, no_backup |-> FALSE], [force |-> TRUE, no_backup |-> FALSE],
          [force |-> TRUE, no_backup |-> TRUE]}

PatchCmd(heading, index, op, content, fingerprint, force, no_backup) ==
    [cmd |-> "patch", file |-> FileF, heading |-> heading, index |-> index, op |-> op,
     content |-> content, fingerprint |-> fingerprint, force |-> force,
     no_backup |-> no_backup]

\* the command lines of mdp patch; the last three are one without --content,
\* one whose --heading has no heading marker, and one whose fingerprint is
\* no regular expression
PatchCmds ==
    {PatchCmd(h, i, o.op, o.content, p, m.force, m.no_backup) :
        h \in HeadingArgs, i \in Indexes, o \in OpArgs, p \in Fingerprints, m \in Modes}
    \cup {PatchCmd(LineA, 0, "Replace", None, None, TRUE, FALSE),
          PatchCmd(LineX, 0, "Append", Some(LineY), None, TRUE, FALSE),
          PatchCmd(LineA, 0, "Delete", None, Some(<<"*">>), TRUE, FALSE)}

\* OperationConfig
OperationConfig(file, heading, index, operation, content, fingerprint) ==
    [file |-> file, heading |-> heading, index |-> index, operation |-> operation,
     content |-> content, fingerprint |-> fingerprint]

\* the operations of the batch files
BatchOps ==
    {OperationConfig(FileF, <<LineA>>, 0, "Append", Some(LineY), Some(<<"x">>)),
     OperationConfig(FileG, <<LineA>>, 0, "Delete", None, None),
     OperationConfig(FileG, <<LineA>>, 0, "Append", Some(LineY), None)}

\* operations that load_config refuses: no content, no heading
BadOps ==
    {OperationConfig(FileG, <<LineA>>, 0, "Replace", None, None),
     OperationConfig(FileG, <<>>, 0, "Delete", None, None)}

\* the batch files: up to MaxBatch operations, and two with a refused
\* operation after a good one
Batches ==
    (SeqsUpTo(BatchOps, MaxBatch) \ {<<>>})
    \cup {<<OperationConfig(FileG, <<LineA>>, 0, "Delete", None, None), b>> : b \in BadOps}

ApplyCmds ==
    {[cmd |-> "apply", operations |-> b, force |-> m.force, no_backup |-> m.no_backup] :
        b \in Batches, m \in Modes}

PlanCmds == {[cmd |-> "plan", operations |-> b] : b \in Batches}

(***************************************************************************)
(* The program: an initial file system, one command, and the same command  *)
(* run again.  hist is the record of the runs so far.  Every run is a      *)
(* process of its own, so a behaviour with other commands before this one  *)
(* is a behaviour from another initial document.                           *)
(***************************************************************************)
NoQuery == [stage |-> "none"]

Init ==
    /\ files \in {[n \in FileNames |-> IF n = FileF THEN d ELSE Some(DocG)] :
                     d \in {None} \cup {Some(t) : t \in Docs}}
    /\ bak = [n \in FileNames |-> None]
    /\ tmp = [n \in FileNames |-> None]
    /\ hist = <<>>
    /\ rq = NoQuery

\* one run of the program with the command line cmd
Run(cmd) ==
    \E r \in {Exec(Fs(files, bak, tmp), cmd)} :
        /\ files' = r.fs.files
        /\ bak' = r.fs.bak
        /\ tmp' = r.fs.tmp
        /\ hist' = Append(hist, r.out)
        /\ UNCHANGED rq

\* mdp patch
Patch == hist = <<>> /\ \E cmd \in PatchCmds : Run(cmd)

\* mdp apply
Apply == hist = <<>> /\ \E cmd \in ApplyCmds : Run(cmd)

\* mdp plan
Plan == hist = <<>> /\ \E cmd \in PlanCmds : Run(cmd)

\* The same command line once more.  A run that left the file system as it
\* was would only be repeated with the same outcome, so the command is run
\* again after a run that changed a file.
Rerun ==
    /\ hist # <<>>
    /\ Len(hist) <= MaxReruns
    /\ Fs(files, bak, tmp) # hist[Len(hist)].pre
    /\ Run(hist[Len(hist)].cmd)

Next == Patch \/ Apply \/ Plan \/ Rerun

Spec == Init /\ [][Next]_vars

(***************************************************************************)
(* The resolver on its own: a document is parsed, a heading path is        *)
(* resolved against its sections (find_section) and a block index against  *)
(* the section found (get_block).  rq is the query and its answer.         *)
(***************************************************************************)
\* the lines of the documents of the resolver specification
SecLineSet == {LineA, LineB, LineS, LineSsp, LineT, LineHr}

SecDocs == {JoinNl(ls) : ls \in SeqsUpTo(SecLineSet, MaxSecLines)}

\* the elements of the heading paths; one has spaces around it
PathElems == {LineA, LineB, <<" ">> \o LineS \o <<" ">>, LineT}

\* the heading paths: the sequences of distinct elements, the empty one included
Paths ==
    {p \in SeqsUpTo(PathElems, Cardinality(PathElems)) :
        \A i, j \in 1..Len(p) : i # j => p[i] # p[j]}

InitResolve ==
    /\ files \in {[n \in FileNames |-> IF n = FileF THEN Some(d) ELSE Some(DocG)] :
                     d \in SecDocs}
    /\ bak = [n \in FileNames |-> None]
    /\ tmp = [n \in FileNames |-> None]
    /\ hist = <<>>
    /\ rq = NoQuery

\* let sections = parse_sections(content)?
ParseSections ==
    /\ rq.stage = "none"
    /\ rq' = [stage |-> "parsed", sections |-> parse_sections(files[FileF].v)]
    /\ UNCHANGED <<files, bak, tmp, hist>>

\* let section = find_section(&sections, &heading_path)
FindSection ==
    /\ rq.stage = "parsed"
    /\ rq.sections.kind = "Ok"
    /\ \E p \in Paths :
          rq' = [stage |-> "found", sections |-> rq.sections.v, path |-> p,
                 section |-> find_section(rq.sections.v, p)]
    /\ UNCHANGED <<files, bak, tmp, hist>>

\* let block = get_block(section, index)
GetBlock ==
    /\ rq.stage = "found"
    /\ rq.section.kind = "Ok"
    /\ \E i \in Indexes :
          rq' = [stage |-> "block", sections |-> rq.sections, at |-> rq.section.v,
                 index |-> i, block |-> get_block(rq.sections[rq.section.v + 1], i)]
    /\ UNCHANGED <<files, bak, tmp, hist>>

NextResolve == ParseSections \/ FindSection \/ GetBlock

SpecResolve == InitResolve /\ [][NextResolve]_vars

(***************************************************************************)
(* Properties of the commands.                                             *)
(***************************************************************************)
\* the file system after run k of the history
FsAfter(k) == IF k < Len(hist) THEN hist[k + 1].pre ELSE Fs(files, bak, tmp)

\* run k left every target, backup and temporary file as it was
NothingWritten(k) == hist[k].fsops = <<>> /\ FsAfter(k) = hist[k].pre

\* the command line asks for force mode
Forced(cmd) == cmd.cmd # "plan" /\ cmd.force

\* the calls of apply_operation of the whole history, as <<run, call>> pairs
AllCalls == {<<k, c>> \in (1..Len(hist)) \X (1..MaxBatch + 1) : c <= Len(hist[k].calls)}

\* run k is a forced mdp patch --op append that succeeded
ForcedAppendDone(k) ==
    /\ hist[k].cmd.cmd = "patch"
    /\ hist[k].cmd.op = "Append"
    /\ hist[k].cmd.force
    /\ hist[k].status = "Ok"

\* C1: idempotent append.  When a forced Append has been applied to a
\* document and the identical Append is applied to the result, the second
\* application succeeds, leaves the document as the first one left it, and
\* its diff has no added and no removed line.
C1_IdempotentAppend ==
    \A k \in 1..(Len(hist) - 1) :
        (ForcedAppendDone(k) /\ hist[k + 1].cmd = hist[k].cmd)
        => /\ hist[k + 1].status = "Ok"
           /\ hist[k + 1].calls[1].result.new_content = hist[k].calls[1].result.new_content
           /\ FsAfter(k + 1).files = FsAfter(k).files
           /\ NoChangeLines(hist[k + 1].calls[1].result.diff)

\* a call of a destructive operation without fingerprint and without force
\* on a target that resolves
UnsafeCall(call) ==
    /\ call.operation.operation \in {"Replace", "Delete"}
    /\ ~call.operation.fingerprint.some
    /\ ~call.force
    /\ call.block.kind = "Ok"

\* C2: destructive gate.  A Replace or Delete without fingerprint and
\* without force, on a target that resolves, fails with
\* UnsafeDestructiveOperation, returns no text, and the run writes nothing.
C2_DestructiveGate ==
    \A kc \in AllCalls :
        LET call == hist[kc[1]].calls[kc[2]]
        IN  UnsafeCall(call)
            => /\ call.result = Err([kind |-> "UnsafeDestructiveOperation"])
               /\ hist[kc[1]].status = "Err"
               /\ hist[kc[1]].err.kind = "UnsafeDestructiveOperation"
               /\ NothingWritten(kc[1])

C2_Witness ==
    \E kc \in AllCalls :
        /\ UnsafeCall(hist[kc[1]].calls[kc[2]])
        /\ hist[kc[1]].calls[kc[2]].operation.operation = "Replace"
        /\ hist[kc[1]].err.kind = "UnsafeDestructiveOperation"

\* the text a mutation of exactly the block gives
MutationOf(content, block, operation) ==
    IF operation.operation = "Replace"
    THEN Take(content, block.start) \o operation.content.v \o Drop(content, block.end)
    ELSE IF operation.operation = "Delete"
    THEN CollapseNewlines(Take(content, block.start) \o Drop(content, block.end))
    ELSE IF Contains(Drop(content, block.start), operation.content.v) THEN content
    ELSE Take(content, block.end) \o <<NL>> \o operation.content.v \o <<NL>>
         \o Drop(content, block.end)

\* a call whose (well-formed) fingerprint does not match the resolved block
MismatchCall(call) ==
    /\ call.operation.fingerprint.some
    /\ ValidRegex(call.operation.fingerprint.v)
    /\ call.block.kind = "Ok"
    /\ ~IsMatch(call.operation.fingerprint.v, call.block.v.content)

\* a forced call whose fingerprint matches the resolved block
MatchCall(call) ==
    /\ call.operation.fingerprint.some
    /\ ValidRegex(call.operation.fingerprint.v)
    /\ call.block.kind = "Ok"
    /\ IsMatch(call.operation.fingerprint.v, call.block.v.content)
    /\ call.force
    /\ call.operation.operation = "Delete" \/ call.operation.content.some

\* the first half of C3: a mismatch fails, forced or not, and nothing is written
C3_Mismatch ==
    \A kc \in AllCalls :
        LET call == hist[kc[1]].calls[kc[2]]
        IN  MismatchCall(call)
            => /\ call.result.kind = "Err"
               /\ call.result.err.kind = "FingerprintMismatch"
               /\ NothingWritten(kc[1])

\* the second half of C3: a forced call with a matching fingerprint succeeds
\* and its text is the mutation of exactly the resolved block
C3_Match ==
    \A kc \in AllCalls :
        LET call == hist[kc[1]].calls[kc[2]]
        IN  MatchCall(call)
            => /\ call.result.kind = "Applied"
               /\ call.result.new_content =
                      MutationOf(call.content, call.block.v,
                                 call.operation)

C4_DryRunNeverWrites ==
    \A k \in 1..Len(hist) :
        ~Forced(hist[k].cmd)
        => /\ \A c \in 1..Len(hist[k].calls) :
                  hist[k].calls[c].result.kind \in {"Applied", "DryRun"}
                  => /\ hist[k].calls[c].result.kind = "DryRun"
                     /\ DOMAIN hist[k].calls[c].result = {"kind", "diff"}
           /\ NothingWritten(k)

\* a dry run of two operations that would both change their files
C4_Witness ==
    \E k \in 1..Len(hist) :
        /\ ~Forced(hist[k].cmd)
        /\ hist[k].status = "Ok"
        /\ Len(hist[k].calls) = 2
        /\ \A c \in 1..2 : ~NoChangeLines(hist[k].calls[c].result.diff)

\* run k is a batch (apply or plan)
IsBatch(k) == hist[k].cmd.cmd \in {"apply", "plan"}

\* C5: batch fail-fast.  When an operation of a batch fails (file not
\* readable, heading not found or ambiguous, block index out of range,
\* fingerprint mismatch, unsafe destructive operation, missing content), at
\* whatever position, no file of the batch has been written.
C5_BatchFailFast ==
    \A k \in 1..Len(hist) :
        (IsBatch(k) /\ hist[k].status # "Ok") => NothingWritten(k)

\* a forced batch whose first operation was accepted and whose second failed
C5_Witness ==
    \E k \in 1..Len(hist) :
        /\ IsBatch(k)
        /\ Forced(hist[k].cmd)
        /\ hist[k].status = "Err"
        /\ Len(hist[k].calls) = 2
        /\ hist[k].calls[1].result.kind = "Applied"
        /\ hist[k].calls[1].result.new_content # hist[k].calls[1].content

\* a forced Append that found its content present: the text it returns is
\* the text it was given
NoopAppend(call) ==
    /\ call.operation.operation = "Append"
    /\ call.result.kind = "Applied"
    /\ call.result.new_content = call.content

\* C6: a no-op append performs no write.  When an Append finds its content
\* already present, its diff has no added and no removed line and the run
\* writes no file (no backup, no temporary file, no rename), even in force
\* mode.
C6_NoopAppendNoWrite ==
    \A kc \in AllCalls :
        NoopAppend(hist[kc[1]].calls[kc[2]])
        => /\ NoChangeLines(hist[kc[1]].calls[kc[2]].result.diff)
           /\ hist[kc[1]].status = "Ok" => hist[kc[1]].fsops = <<>>


(***************************************************************************)
(* Properties of the resolver.                                             *)
(***************************************************************************)
\* the one-based positions of the sections whose trimmed heading is the trimmed h
Matches(sections, h) == {k \in 1..Len(sections) : Trim(sections[k].heading) = Trim(h)}

SetMin(S) == CHOOSE k \in S : \A m \in S : k <= m

SetMax(S) == CHOOSE k \in S : \A m \in S : k >= m

\* a path of one element has been resolved
FoundSingle == rq.stage = "found" /\ Len(rq.path) = 1

\* a path of two or more elements has been resolved
FoundNested == rq.stage = "found" /\ Len(rq.path) >= 2

\* C7: single-element path resolution.  A path of one element p resolves
\* to the section whose trimmed heading is the trimmed p when exactly one
\* section matches, fails with HeadingNotFound when none matches, and fails
\* with AmbiguousHeading, suggesting a nested path for the heading text,
\* when two or more match.
C7_SingleElementPath ==
    FoundSingle
    => LET M == Matches(rq.sections, rq.path[1])
       IN  /\ Cardinality(M) = 1 => rq.section = Ok(SetMin(M) - 1)
           /\ M = {} => /\ rq.section.kind = "Err"
                        /\ rq.section.err.kind = "HeadingNotFound"
           /\ Cardinality(M) >= 2
              => /\ rq.section.kind = "Err"
                 /\ rq.section.err.kind = "AmbiguousHeading"
                 /\ \E h \in 1..6 :
                       [j \in 1..h |-> "#"] \o <<" ">> \o rq.section.err.suggestion
                           = Trim(rq.path[1])

\* the one match is a heading line that differs from the path element by spaces
C7_Witness ==
    /\ FoundSingle
    /\ Cardinality(Matches(rq.sections, rq.path[1])) = 1
    /\ rq.section.kind = "Ok"
    /\ rq.sections[rq.section.v + 1].heading # rq.path[1]
    /\ rq.sections[rq.section.v + 1].heading # Trim(rq.path[1])

\* the statement of C8 as it was made: a nested path whose first element
\* matches more than one section fails with AmbiguousHeading
C8_AsClaimed ==
    (FoundNested /\ Cardinality(Matches(rq.sections, rq.path[1])) >= 2)
    => (rq.section.kind = "Err" /\ rq.section.err.kind = "AmbiguousHeading")

\* C8, amended: a nested path whose first element matches more than one
\* section does not fail with AmbiguousHeading.  The first match in document
\* order is taken as the parent: the path resolves to a section after the
\* first match and before the second one, or fails with SubheadingNotFound.
C8_FirstMatchIsParent ==
    (FoundNested /\ Cardinality(Matches(rq.sections, rq.path[1])) >= 2)
    => LET M == Matches(rq.sections, rq.path[1])
           first  == SetMin(M)
           second == SetMin(M \ {first})
       IN  IF rq.section.kind = "Ok"
           THEN first < rq.section.v + 1 /\ rq.section.v + 1 < second
           ELSE rq.section.err.kind = "SubheadingNotFound"

\* the child is found under the first of two equally named parents
C8_Witness ==
    /\ FoundNested
    /\ Cardinality(Matches(rq.sections, rq.path[1])) >= 2
    /\ rq.section.kind = "Ok"

\* The scoped scan as the claim states it, for the path elements i.. after
\* the section at position prev (one-based): the first section after prev
\* with the heading of the element, with no section of level <= lvl from
\* prev to it.
RECURSIVE ScopedScan(_, _, _, _, _)
ScopedScan(sections, path, i, prev, lvl) ==
    IF i > Len(path) THEN Ok(prev - 1)
    ELSE LET hits == {k \in (prev + 1)..Len(sections) :
                         /\ Trim(sections[k].heading) = Trim(path[i])
                         /\ \A m \in (prev + 1)..k : sections[m].heading_level > lvl}
         IN  IF hits = {}
             THEN Err([kind |-> "SubheadingNotFound", heading |-> Trim(path[i])])
             ELSE ScopedScan(sections, path, i + 1, SetMin(hits), lvl)

\* C9: scoped linear scan.  In a nested path whose first element is found,
\* each later element resolves to the first section after the section
\* resolved before it that has the element's heading and comes before any
\* section of a level <= the level of the first element; without such a
\* section the resolution fails with SubheadingNotFound.
C9_ScopedScan ==
    (FoundNested /\ Matches(rq.sections, rq.path[1]) # {})
    => LET first == SetMin(Matches(rq.sections, rq.path[1]))
       IN  rq.section = ScopedScan(rq.sections, rq.path, 2, first,
                                   rq.sections[first].heading_level)

\* a parent and a child name the second of two equally named children
C9_Witness ==
    /\ FoundNested
    /\ Cardinality(Matches(rq.sections, rq.path[1])) = 1
    /\ Cardinality(Matches(rq.sections, rq.path[2])) = 2
    /\ rq.section.kind = "Ok"
    /\ \E k \in Matches(rq.sections, rq.path[2]) : k < rq.section.v + 1

\* C10: block locator.  For a section with n blocks and a zero-based index
\* i, get_block returns the i-th block in document order when i < n, and
\* fails with BlockIndexOutOfRange, reporting i and n, when i >= n.
C10_BlockLocator ==
    rq.stage = "block"
    => LET blocks == rq.sections[rq.at + 1].blocks
           n == Len(blocks)
       IN  IF rq.index < n
           THEN /\ rq.block.kind = "Ok"
                /\ \E j \in 1..n : blocks[j] = rq.block.v
                /\ Cardinality({j \in 1..n : blocks[j].start < rq.block.v.start}) = rq.index
           ELSE rq.block = Err([kind |-> "BlockIndexOutOfRange", index |-> rq.index,
                                available |-> n])

\* the second of two blocks is returned
C10_Witness ==
    /\ rq.stage = "block"
    /\ rq.index = 1
    /\ rq.block.kind = "Ok"
    /\ Len(rq.sections[rq.at + 1].blocks) >= 2

(***************************************************************************)
(* The block specification: a document is parsed and one block of it is    *)
(* replaced, deleted or appended to (parse_sections, apply_replace,        *)
(* apply_delete, apply_append).  The document is the content of file f.    *)
(***************************************************************************)
\* an HTML line
LineHtml == <<"<", "b", ">">>

\* a quotation line that starts with a space
LineQ == <<" ", ">", "q">>

\* a line that starts with "#" and is no heading
LineTag == <<"#", "x">>

\* the lines of the documents: a heading, a paragraph line, a blank line, a
\* code fence, an HTML line and an indented quotation line
BlockLineSet == {LineA, LineX, <<>>, Fence, LineHtml, LineQ, LineTag}

BlockDocs == {JoinNl(ls) : ls \in SeqsUpTo(BlockLineSet, MaxBlockLines)}

\* the content of a Replace or an Append
NewContents == {Some(LineY), Some(LineX), Some(<<>>)}

InitBlocks ==
    /\ files \in {[n \in FileNames |-> IF n = FileF THEN Some(d) ELSE Some(DocG)] :
                     d \in BlockDocs}
    /\ bak = [n \in FileNames |-> None]
    /\ tmp = [n \in FileNames |-> None]
    /\ hist = <<>>
    /\ rq = NoQuery

\* let sections = parse_sections(content)?
ParseDocument ==
    /\ rq.stage = "none"
    /\ rq' = [stage |-> "parsed", content |-> files[FileF].v,
              sections |-> parse_sections(files[FileF].v)]
    /\ UNCHANGED <<files, bak, tmp, hist>>

\* the blocks of the parsed document
ParsedBlocks ==
    IF rq.stage = "parsed" /\ rq.sections.kind = "Ok"
    THEN UNION {{rq.sections.v[k].blocks[j] : j \in 1..Len(rq.sections.v[k].blocks)} :
                   k \in 1..Len(rq.sections.v)}
    ELSE {}

\* Operation::Replace => apply_replace(content, block, operation.content.as_deref())
ReplaceBlock ==
    /\ \E b \in ParsedBlocks, c \in NewContents :
          rq' = [stage |-> "replaced", content |-> rq.content, block |-> b, new_content |-> c,
                 result |-> apply_replace(rq.content, b, c)]
    /\ UNCHANGED <<files, bak, tmp, hist>>

\* Operation::Delete => apply_delete(content, block)
DeleteBlock ==
    /\ \E b \in ParsedBlocks :
          rq' = [stage |-> "deleted", content |-> rq.content, block |-> b,
                 result |-> apply_delete(rq.content, b)]
    /\ UNCHANGED <<files, bak, tmp, hist>>

\* Operation::Append => apply_append(content, block, operation.content.as_deref())
AppendBlock ==
    /\ \E b \in ParsedBlocks, c \in NewContents :
          rq' = [stage |-> "appended", content |-> rq.content, block |-> b, new_content |-> c,
                 result |-> apply_append(rq.content, b, c)]
    /\ UNCHANGED <<files, bak, tmp, hist>>

NextBlocks == ParseDocument \/ ReplaceBlock \/ DeleteBlock \/ AppendBlock

SpecBlocks == InitBlocks /\ [][NextBlocks]_vars

(***************************************************************************)
(* Properties of the parser and of the mutation engine.                    *)
(***************************************************************************)
\* the block's offsets lie in the text and its content is the text between them
SpanInText(t, b) ==
    /\ b.start <= b.end
    /\ b.end <= Len(t)
    /\ b.content = SubSeq(t, b.start + 1, b.end)

C15_ParseTotal == rq.stage = "parsed" => rq.sections.kind = "Ok"

\* the heading lines of a text, in order, as the parser stores them
RECURSIVE HeadingLines(_)
HeadingLines(lines) ==
    IF lines = <<>> THEN <<>>
    ELSE (IF HeadingCaps(Head(lines)).matched
          THEN <<HeadingCaps(Head(lines)).hashes \o <<" ">> \o HeadingCaps(Head(lines)).text>>
          ELSE <<>>)
         \o HeadingLines(Tail(lines))

RECURSIVE HeadingsInBlocks(_)
HeadingsInBlocks(blocks) ==
    IF blocks = <<>> THEN <<>>
    ELSE HeadingLines(Lines(Head(blocks).content)) \o HeadingsInBlocks(Tail(blocks))

\* the heading of each section followed by the heading lines inside its blocks
RECURSIVE HeadingsOf(_)
HeadingsOf(sections) ==
    IF sections = <<>> THEN <<>>
    ELSE <<Head(sections).heading>> \o HeadingsInBlocks(Head(sections).blocks)
         \o HeadingsOf(Tail(sections))

\* the blocks whose loops take lines without looking for a heading
TakesHeadings == {"CodeBlock", "Table", "Html"}

WithoutNl(s) == SelectSeq(s, LAMBDA ch : ch # NL)

AlreadyPresent == Contains(Drop(rq.content, rq.block.start), rq.new_content.v)

DiffTexts == {JoinNl(ls) : ls \in SeqsUpTo({LineX, LineY, <<>>}, MaxDiffLines)}

InitDiff ==
    /\ files = [n \in FileNames |-> Some(DocG)]
    /\ bak = [n \in FileNames |-> None]
    /\ tmp = [n \in FileNames |-> None]
    /\ hist = <<>>
    /\ rq \in {[stage |-> "pair", original |-> o, modified |-> m] :
                  o \in DiffTexts, m \in DiffTexts}

\* let diff = generate_diff(content, &new_content, &clean_filename)
GenerateDiff ==
    /\ rq.stage = "pair"
    /\ rq' = [stage |-> "diffed", original |-> rq.original, modified |-> rq.modified,
              diff |-> generate_diff(rq.original, rq.modified, FileF)]
    /\ UNCHANGED <<files, bak, tmp, hist>>

NextDiff == GenerateDiff

SpecDiff == InitDiff /\ [][NextDiff]_vars

\* the lines of a diff body that carry one of the prefixes, without the prefix
RECURSIVE Side(_, _)
Side(body, prefixes) ==
    IF body = <<>> THEN <<>>
    ELSE (IF Head(body)[1] \in prefixes THEN <<Tail(Head(body))>> ELSE <<>>)
         \o Side(Tail(body), prefixes)

\* C14: diff round-trip.  generate_diff returns for every pair of texts (its
\* walk does not index past the end of a line sequence); the body lines
\* prefixed " " or "-" are, in order, the lines of the original; those
\* prefixed " " or "+" are the lines of the modified text; and the body of
\* the diff of a text with itself has no "+" and no "-" line.
C14_DiffRoundTrip ==
    rq.stage = "diffed"
    => /\ rq.diff.kind = "Ok"
       /\ \A k \in 1..Len(DiffBody(rq.diff.v)) : DiffBody(rq.diff.v)[k][1] \in {" ", "-", "+"}
       /\ Side(DiffBody(rq.diff.v), {" ", "-"}) = Lines(rq.original)
       /\ Side(DiffBody(rq.diff.v), {" ", "+"}) = Lines(rq.modified)
       /\ rq.original = rq.modified => NoChangeLines(rq.diff.v)

\* a diff with an unchanged, a removed and an added line
C14_Witness ==
    /\ rq.stage = "diffed"
    /\ rq.diff.kind = "Ok"
    /\ \A c \in {" ", "-", "+"} :
          \E k \in 1..Len(DiffBody(rq.diff.v)) : DiffBody(rq.diff.v)[k][1] = c

(***************************************************************************)
(* Exit codes (main.rs, main and classify_error).  The texts of the error  *)
(* messages, as the bail! calls of the source format them.                 *)
(***************************************************************************)
MsgFingerprintMismatch ==
    <<"F", "i", "n", "g", "e", "r", "p", "r", "i", "n", "t", " ", "m", "i", "s", "m", "a", "t",
      "c", "h">>

MsgMultipleSections ==
    <<"M", "u", "l", "t", "i", "p", "l", "e", " ", "s", "e", "c", "t", "i", "o", "n", "s", " ",
      "f", "o", "u", "n", "d">>

MsgAmbiguous ==
    <<"A", "m", "b", "i", "g", "u", "o", "u", "s">>

MsgHeadingNotFound ==
    <<"H", "e", "a", "d", "i", "n", "g", " ", "n", "o", "t", " ", "f", "o", "u", "n", "d">>

MsgSubheadingNotFound ==
    <<"S", "u", "b", "h", "e", "a", "d", "i", "n", "g", " ", "n", "o", "t", " ", "f", "o", "u",
      "n", "d">>

\* {} of a usize below ten
Decimal(n) == <<<<"0", "1", "2", "3", "4", "5", "6", "7", "8", "9">>[n + 1]>>

\* {:?} of a Vec<String>
RECURSIVE DebugItems(_)
DebugItems(v) ==
    IF v = <<>> THEN <<>>
    ELSE <<"\"">> \o v[1] \o <<"\"">>
         \o (IF Len(v) > 1 THEN <<",", " ">> ELSE <<>>) \o DebugItems(Tail(v))

DebugVec(v) == <<"[">> \o DebugItems(v) \o <<"]">>

\* {:?} of Operation::Append and Operation::Replace in the text of bail!
OperationName(op) ==
    IF op = "Append" THEN <<"A", "p", "p", "e", "n", "d">>
    ELSE <<"R", "e", "p", "l", "a", "c", "e">>

\* e.to_string() of the errors of parser.rs, patch.rs, config.rs and of
\* run().  Of the text of the regex crate, which goes on to quote the
\* pattern, the first words are kept; a file that cannot be read gives the
\* text of the operating system.
Message(e) ==
    CASE e.kind = "EmptyHeadingPath" ->
             <<"H", "e", "a", "d", "i", "n", "g", " ", "p", "a", "t", "h", " ", "c", "a",
               "n", "n", "o", "t", " ", "b", "e", " ", "e", "m", "p", "t", "y">>
      [] e.kind = "HeadingNotFound" -> MsgHeadingNotFound \o <<":", " ">> \o e.heading
      [] e.kind = "AmbiguousHeading" ->
             MsgMultipleSections \o
             <<" ", "f", "o", "r", " ", "h", "e", "a", "d", "i", "n", "g", " ", "'">> \o e.heading \o
             <<"'", ".", " ", "P", "l", "e", "a", "s", "e", " ", "p", "r", "o", "v", "i",
               "d", "e", " ", "a", " ", "m", "o", "r", "e", " ", "s", "p", "e",
               "c", "i", "f", "i", "c", " ", "p", "a", "t", "h", " ", "l", "i",
               "k", "e", " ", "'", "#", " ", "P", "a", "r", "e", "n", "t", " ",
               "#", "#", " ">>
             \o e.suggestion \o <<"'", ".">>
      [] e.kind = "SubheadingNotFound" -> MsgSubheadingNotFound \o <<":", " ">> \o e.heading
      [] e.kind = "BlockIndexOutOfRange" ->
             <<"B", "l", "o", "c", "k", " ", "i", "n", "d", "e", "x", " ">> \o Decimal(e.index) \o
             <<" ", "o", "u", "t", " ", "o", "f", " ", "r", "a", "n", "g", "e", " ", "(",
               "s", "e", "c", "t", "i", "o", "n", " ", "h", "a", "s", " ">> \o Decimal(e.available)
             \o <<" ", "b", "l", "o", "c", "k", "s", ")">>
      [] e.kind = "InvalidRegex" ->
             <<"r", "e", "g", "e", "x", " ", "p", "a", "r", "s", "e", " ", "e", "r", "r",
               "o", "r", ":", " ">>
      [] e.kind = "FingerprintMismatch" ->
             MsgFingerprintMismatch \o
             <<":", " ", "e", "x", "p", "e", "c", "t", "e", "d", " ", "p", "a", "t", "t",
               "e", "r", "n", " ", "'">> \o e.fingerprint \o
             <<"'", " ", "n", "o", "t", " ", "f", "o", "u", "n", "d", " ", "i", "n", " ",
               "b", "l", "o", "c", "k", " ", "c", "o", "n", "t", "e", "n", "t">>
      [] e.kind = "UnsafeDestructiveOperation" ->
             <<"D", "e", "s", "t", "r", "u", "c", "t", "i", "v", "e", " ", "o", "p", "e",
               "r", "a", "t", "i", "o", "n", " ", "r", "e", "q", "u", "i", "r",
               "e", "s", " ", "-", "-", "f", "o", "r", "c", "e", " ", "f", "l",
               "a", "g", " ", "o", "r", " ", "f", "i", "n", "g", "e", "r", "p",
               "r", "i", "n", "t", " ", "f", "o", "r", " ", "s", "a", "f", "e",
               "t", "y", ".", " ", "P", "r", "o", "v", "i", "d", "e", " ", "a",
               " ", "f", "i", "n", "g", "e", "r", "p", "r", "i", "n", "t", " ",
               "p", "a", "t", "t", "e", "r", "n", " ", "t", "o", " ", "v", "e",
               "r", "i", "f", "y", " ", "t", "h", "e", " ", "t", "a", "r", "g",
               "e", "t", " ", "b", "l", "o", "c", "k", ".">>
      [] e.kind = "MissingContent" -> OperationName(e.op) \o
             <<" ", "o", "p", "e", "r", "a", "t", "i", "o", "n", " ", "r", "e", "q", "u",
               "i", "r", "e", "s", " ", "c", "o", "n", "t", "e", "n", "t">>
      [] e.kind = "ContentRequired" ->
             <<"C", "o", "n", "t", "e", "n", "t", " ", "i", "s", " ", "r", "e", "q", "u",
               "i", "r", "e", "d", " ", "f", "o", "r", " ", "a", "p", "p", "e",
               "n", "d", "/", "r", "e", "p", "l", "a", "c", "e", " ", "o", "p",
               "e", "r", "a", "t", "i", "o", "n", "s">>
      [] e.kind = "InvalidHeadingPath" ->
             <<"I", "n", "v", "a", "l", "i", "d", " ", "h", "e", "a", "d", "i", "n", "g",
               " ", "p", "a", "t", "h", " ", "f", "o", "r", "m", "a", "t", ".",
               " ", "E", "x", "p", "e", "c", "t", "e", "d", ":", " ", "'", "#",
               " ", "T", "i", "t", "l", "e", " ", "#", "#", " ", "S", "u", "b",
               "t", "i", "t", "l", "e", " ", ".", ".", ".", "'">>
      [] e.kind = "InvalidConfig" ->
             <<"O", "p", "e", "r", "a", "t", "i", "o", "n", " ">> \o Decimal(e.operation)
             \o (IF e.content THEN
             <<":", " ", "c", "o", "n", "t", "e", "n", "t", " ", "i", "s", " ", "r", "e",
               "q", "u", "i", "r", "e", "d", " ", "f", "o", "r", " ", "a", "p",
               "p", "e", "n", "d", "/", "r", "e", "p", "l", "a", "c", "e">> ELSE
             <<":", " ", "h", "e", "a", "d", "i", "n", "g", " ", "p", "a", "t", "h", " ",
               "c", "a", "n", "n", "o", "t", " ", "b", "e", " ", "e", "m", "p",
               "t", "y">>)
      [] e.kind = "Io" ->
             <<"N", "o", " ", "s", "u", "c", "h", " ", "f", "i", "l", "e", " ", "o", "r",
               " ", "d", "i", "r", "e", "c", "t", "o", "r", "y", " ", "(", "o",
               "s", " ", "e", "r", "r", "o", "r", " ", "2", ")">>

\* the two bail! calls of the first pass of apply_batch, which wrap the error
\* of the operation in the file name and the heading path of the operation
BatchMessage(file, heading, e) ==
    IF e.kind = "Io" THEN
             <<"F", "a", "i", "l", "e", "d", " ", "t", "o", " ", "r", "e", "a", "d", " ">> \o file \o <<":", " ">> \o Message(e)
    ELSE
             <<"O", "p", "e", "r", "a", "t", "i", "o", "n", " ", "f", "a", "i", "l", "e",
               "d", " ", "f", "o", "r", " ">> \o file \o
             <<" ", "(", "h", "e", "a", "d", "i", "n", "g", ":", " ">> \o DebugVec(heading) \o
             <<")", ":", " ">>
         \o Message(e)

classify_error(error_msg) ==
    IF Contains(error_msg, MsgFingerprintMismatch) THEN 3
    ELSE IF Contains(error_msg, MsgMultipleSections) \/ Contains(error_msg, MsgAmbiguous)
    THEN 4
    ELSE IF Contains(error_msg, MsgHeadingNotFound)
            \/ Contains(error_msg, MsgSubheadingNotFound)
    THEN 2
    ELSE 1

\* main(): the exit code of the process for the result of run()
main(result) ==
    IF result.kind = "Err" THEN classify_error(result.err) ELSE 0

\* The Result of run() for the record of a run that returned: the text
\* of its error is the text of the error of the command, and for an
\* operation of a batch the text apply_batch wraps around it.
run(out) ==
    IF out.status = "Ok" THEN Ok(<<>>)
    ELSE IF out.cmd.cmd = "patch" \/ out.err.kind = "InvalidConfig"
    THEN Err(Message(out.err))
    ELSE IF out.err.kind = "Io"
    THEN Err(BatchMessage(out.err.file, <<>>, out.err))
    ELSE Err(BatchMessage(out.calls[Len(out.calls)].operation.file,
                          out.calls[Len(out.calls)].operation.heading_path, out.err))

(***************************************************************************)
(* The exit specification: one run of the program on a document without   *)
(* code fences and block quotes (every run returns), and the exit code of *)
(* the process.  The headings of the documents and of the command lines   *)
(* include one with the word Ambiguous.                                    *)
(***************************************************************************)
MaxExitLines == 3

LineAmb == <<"#", " ">> \o MsgAmbiguous

ExitLineSet == {LineA, LineAmb, LineS, LineX}

ExitDocs == {JoinNl(ls) : ls \in SeqsUpTo(ExitLineSet, MaxExitLines)}

ExitHeadingArgs ==
    {LineA, LineB, LineAmb, LineA \o <<" ">> \o LineS, LineAmb \o <<" ">> \o LineS}

ExitPatchCmds ==
    {PatchCmd(h, i, o.op, o.content, p, force, FALSE) :
        h \in ExitHeadingArgs, i \in Indexes,
        o \in {[op |-> "Append", content |-> Some(LineY)],
               [op |-> "Delete", content |-> None]},
        p \in Fingerprints, force \in BOOLEAN}
    \cup {PatchCmd(LineA, 0, "Replace", None, None, TRUE, FALSE),
          PatchCmd(LineX, 0, "Append", Some(LineY), None, TRUE, FALSE),
          PatchCmd(LineA, 0, "Delete", None, Some(<<"*">>), TRUE, FALSE)}

ExitBatches ==
    {<<OperationConfig(FileF, h, i, "Delete", None, p)>> :
        h \in {<<LineA>>, <<LineAmb>>, <<LineA, LineS>>}, i \in Indexes, p \in Fingerprints}
    \cup {<<b>> : b \in BadOps}

ExitApplyCmds ==
    {[cmd |-> "apply", operations |-> b, force |-> force, no_backup |-> FALSE] :
        b \in ExitBatches, force \in BOOLEAN}

ExitPlanCmds == {[cmd |-> "plan", operations |-> b] : b \in ExitBatches}

InitExit ==
    /\ files \in {[n \in FileNames |-> IF n = FileF THEN d ELSE Some(DocG)] :
                     d \in {None} \cup {Some(t) : t \in ExitDocs}}
    /\ bak = [n \in FileNames |-> None]
    /\ tmp = [n \in FileNames |-> None]
    /\ hist = <<>>
    /\ rq = NoQuery

\* one process: run() with the command line cmd, and main() on its result
Process(cmd) ==
    \E r \in {Exec(Fs(files, bak, tmp), cmd)} :
        /\ files' = r.fs.files
        /\ bak' = r.fs.bak
        /\ tmp' = r.fs.tmp
        /\ hist' = Append(hist, r.out)
        /\ rq' = [stage |-> "exited", code |-> main(run(r.out))]

ExitPatch == hist = <<>> /\ \E cmd \in ExitPatchCmds : Process(cmd)

ExitApply == hist = <<>> /\ \E cmd \in ExitApplyCmds : Process(cmd)

ExitPlan == hist = <<>> /\ \E cmd \in ExitPlanCmds : Process(cmd)

NextExit == ExitPatch \/ ExitApply \/ ExitPlan

SpecExit == InitExit /\ [][NextExit]_vars

\* the exit code the kind of the error of a run stands for
CodeOfKind(out) ==
    IF out.status = "Ok" THEN 0
    ELSE IF out.err.kind = "FingerprintMismatch" THEN 3
    ELSE IF out.err.kind = "AmbiguousHeading" THEN 4
    ELSE IF out.err.kind \in {"HeadingNotFound", "SubheadingNotFound"} THEN 2
    ELSE 1

\* C18: a run that fails with a fingerprint mismatch exits with 3, with an
\* ambiguous heading with 4, with a heading or subheading not found with 2,
\* with any other error with 1, and a run that succeeds with 0, whatever the
\* heading text, the fingerprint pattern and the file name are.
C18_ExitCodeByKind ==
    rq.stage = "exited" => rq.code = CodeOfKind(hist[1])

\* C18 over the runs whose command line has no heading with one of the
\* phrases classify_error looks for
PlainHeadings(cmd) ==
    IF cmd.cmd = "patch" THEN ~Contains(cmd.heading, MsgAmbiguous)
    ELSE \A k \in 1..Len(cmd.operations) :
            \A j \in 1..Len(cmd.operations[k].heading) :
                ~Contains(cmd.operations[k].heading[j], MsgAmbiguous)

C18_PlainHeadings ==
    (rq.stage = "exited" /\ PlainHeadings(hist[1].cmd)) => rq.code = CodeOfKind(hist[1])

(***************************************************************************)
(* The write specification: atomic_write (main.rs) one file system call   *)
(* at a time, each call in the steps the operating system makes of it,    *)
(* and a crash of the process between any two steps.  Here files is the   *)
(* directory: a function from every path of the run to the content of the *)
(* file, and rq is the position of the process in atomic_write.           *)
(***************************************************************************)
\* the position of the last "." of a file name, or 0
RECURSIVE LastDot(_, _)
LastDot(name, i) ==
    IF i = 0 THEN 0 ELSE IF name[i] = "." THEN i ELSE LastDot(name, i - 1)

\* PathBuf::with_extension for a path of one component: the extension is
\* what follows the last "." that is not the first character of the name
with_extension(file, extension) ==
    LET dot == LastDot(file, Len(file))
    IN  (IF dot > 1 THEN Take(file, dot - 1) ELSE file) \o <<".">> \o extension

ExtBak == <<"b", "a", "k">>

ExtMdTmp == <<"m", "d", ".", "t", "m", "p">>

\* the files mdp is asked to patch
WriteTargets == {<<"n", ".", "m", "d">>, <<"n", ".", "b", "a", "k">>}

WritePaths ==
    WriteTargets \cup {with_extension(f, ExtBak) : f \in WriteTargets}
                 \cup {with_extension(f, ExtMdTmp) : f \in WriteTargets}

\* the content of the target before the call, and the new content
OldContents == {None, Some(<<"a", "b">>), Some(<<"c">>)}

WriteContents == {<<"x", "y">>, <<"a", "b">>, <<>>}

\* what an earlier run may have left at the other paths
StaleContents == {None, Some(<<"z">>)}

InitWrite ==
    /\ \E file \in WriteTargets, old \in OldContents, content \in WriteContents,
          no_backup \in BOOLEAN :
          /\ files \in {d \in [WritePaths -> OldContents \cup StaleContents] :
                           /\ d[file] = old
                           /\ \A q \in WritePaths \ {file} : d[q] \in StaleContents}
          /\ rq = [stage |-> "start", file |-> file, content |-> content,
                   no_backup |-> no_backup, old |-> old, n |-> 0]
    /\ bak = [n \in FileNames |-> None]
    /\ tmp = [n \in FileNames |-> None]
    /\ hist = <<>>

\* if !no_backup && file.exists(): std::fs::copy opens the backup path for
\* writing, which creates the file or empties it.  When the backup path is the
\* file itself the copy may also leave the file as it is.
BackupOpen ==
    /\ rq.stage = "start"
    /\ LET backup_path == with_extension(rq.file, ExtBak)
       IN  IF ~rq.no_backup /\ files[rq.file].some
           THEN \/ /\ files' = [files EXCEPT ![backup_path] = Some(<<>>)]
                   /\ rq' = [rq EXCEPT !.stage = "copy", !.n = 0]
                \/ /\ backup_path = rq.file
                   /\ rq' = [rq EXCEPT !.stage = "copied"]
                   /\ UNCHANGED files
           ELSE /\ rq' = [rq EXCEPT !.stage = "copied"]
                /\ UNCHANGED files
    /\ UNCHANGED <<bak, tmp, hist>>

\* std::fs::copy: the next byte of the file goes to the backup, until the
\* file has no more bytes
BackupCopy ==
    /\ rq.stage = "copy"
    /\ LET backup_path == with_extension(rq.file, ExtBak)
           from == files[rq.file].v
       IN  IF rq.n < Len(from)
           THEN /\ files' = [files EXCEPT
                                ![backup_path] = Some(files[backup_path].v \o <<from[rq.n + 1]>>)]
                /\ rq' = [rq EXCEPT !.n = rq.n + 1]
           ELSE /\ rq' = [rq EXCEPT !.stage = "copied"]
                /\ UNCHANGED files
    /\ UNCHANGED <<bak, tmp, hist>>

\* the path std::fs::write opens, creating the file or emptying it
WriteDest(file) == with_extension(file, ExtMdTmp)

\* std::fs::write(&temp_file, content): open
TempOpen ==
    /\ rq.stage = "copied"
    /\ files' = [files EXCEPT ![WriteDest(rq.file)] = Some(<<>>)]
    /\ rq' = [rq EXCEPT !.stage = "write", !.n = 0]
    /\ UNCHANGED <<bak, tmp, hist>>

\* std::fs::write(&temp_file, content): the next byte of content
TempWrite ==
    /\ rq.stage = "write"
    /\ rq.n < Len(rq.content)
    /\ files' = [files EXCEPT ![WriteDest(rq.file)] =
                                 Some(files[WriteDest(rq.file)].v \o <<rq.content[rq.n + 1]>>)]
    /\ rq' = [rq EXCEPT !.n = rq.n + 1]
    /\ UNCHANGED <<bak, tmp, hist>>

\* std::fs::rename(&temp_file, file), one step of the file system, and Ok(())
Rename ==
    /\ rq.stage = "write"
    /\ rq.n = Len(rq.content)
    /\ LET temp_file == with_extension(rq.file, ExtMdTmp)
       IN  files' = [q \in WritePaths |->
                        IF q = rq.file THEN files[temp_file]
                        ELSE IF q = temp_file THEN None
                        ELSE files[q]]
    /\ rq' = [rq EXCEPT !.stage = "done"]
    /\ UNCHANGED <<bak, tmp, hist>>

\* the process ends between two steps
Crash ==
    /\ rq.stage \in {"start", "copy", "copied", "write"}
    /\ rq' = [rq EXCEPT !.stage = "crashed"]
    /\ UNCHANGED <<files, bak, tmp, hist>>

NextWrite == BackupOpen \/ BackupCopy \/ TempOpen \/ TempWrite \/ Rename \/ Crash

SpecWrite == InitWrite /\ [][NextWrite]_vars

\* the target holds its complete previous content or the complete new
\* content, and after Ok(()) the new content, with the temp file gone
OldOrNew ==
    /\ files[rq.file] \in {rq.old, Some(rq.content)}
    /\ rq.stage = "done" =>
          /\ files[rq.file] = Some(rq.content)
          /\ ~files[with_extension(rq.file, ExtMdTmp)].some

\* C19: at every step of atomic_write (backup copy, temp-file write,
\* rename), and after a crash between any two steps, the target file holds
\* its complete previous content or the complete new content, never a partial
\* or mixed content; after a successful write the target holds the new
\* content and the temp file no longer exists.
C19_AtomicWrite == OldOrNew

\* C19 over the targets whose backup path is another file
C19_OtherBackupPath ==
    with_extension(rq.file, ExtBak) # rq.file => OldOrNew

(***************************************************************************)
(* The operations specification: one run of the program with an operation *)
(* whose content is absent or empty or whose heading path is empty, among *)
(* operations that have both.                                              *)
(***************************************************************************)
\* --content: absent, empty, and one line
ContentArgs == {None, Some(<<>>), Some(LineY)}

OperationPatchCmds ==
    {PatchCmd(h, 0, op, c, None, force, FALSE) :
        h \in {LineA, <<>>}, op \in {"Append", "Replace", "Delete"}, c \in ContentArgs,
        force \in BOOLEAN}

OperationBatches ==
    {<<OperationConfig(FileG, <<LineA>>, 0, "Append", Some(LineY), None),
       OperationConfig(FileF, h, 0, op, c, None)>> :
        h \in {<<LineA>>, <<>>}, op \in {"Append", "Replace", "Delete"}, c \in ContentArgs}

OperationApplyCmds ==
    {[cmd |-> "apply", operations |-> b, force |-> force, no_backup |-> FALSE] :
        b \in OperationBatches, force \in BOOLEAN}

\* the file to patch exists
InitOperations == Init /\ files[FileF].some

PatchOperations == hist = <<>> /\ \E cmd \in OperationPatchCmds : Run(cmd)

ApplyOperations == hist = <<>> /\ \E cmd \in OperationApplyCmds : Run(cmd)

NextOperations == PatchOperations \/ ApplyOperations

SpecOperations == InitOperations /\ [][NextOperations]_vars

\* an Append or Replace without content
ContentAbsent(operation, content) ==
    operation \in {"Append", "Replace"} /\ ~content.some

\* an Append or Replace with the empty string for content
ContentEmpty(operation, content) ==
    operation \in {"Append", "Replace"} /\ content.some /\ content.v = <<>>

\* the operations of a command line, as [operation, content, heading]
OperationsOf(cmd) ==
    IF cmd.cmd = "patch"
    THEN {[operation |-> cmd.op, content |-> cmd.content, heading |-> cmd.heading]}
    ELSE {[operation |-> cmd.operations[k].operation,
           content |-> cmd.operations[k].content,
           heading |-> cmd.operations[k].heading] : k \in 1..Len(cmd.operations)}

\* the run was refused for its content or its heading path, with no call of
\* apply_operation and no file system call
Rejected(out) ==
    /\ out.status = "Err"
    /\ out.err.kind \in {"ContentRequired", "MissingContent", "InvalidHeadingPath",
                         "EmptyHeadingPath", "InvalidConfig"}
    /\ out.calls = <<>>
    /\ out.fsops = <<>>

\* C20: an Append or Replace operation whose content is absent or empty, and
\* any operation whose heading path is empty, is rejected before any mutation
\* is computed; no Append or Replace with empty content is ever applied.
C20_WellFormedOperations ==
    \A k \in 1..Len(hist) :
        (\E o \in OperationsOf(hist[k].cmd) :
            \/ ContentAbsent(o.operation, o.content)
            \/ ContentEmpty(o.operation, o.content)
            \/ o.heading = <<>>)
        => Rejected(hist[k])

\* C20 without the empty content: absent content and an empty heading path
C20_AbsentContent ==
    \A k \in 1..Len(hist) :
        (\E o \in OperationsOf(hist[k].cmd) :
            \/ ContentAbsent(o.operation, o.content)
            \/ o.heading = <<>>)
        => Rejected(hist[k])

(***************************************************************************)
(* The replace specification: a forced mdp patch --op replace without a   *)
(* fingerprint, and the same command line once more.                       *)
(***************************************************************************)
LineZ == <<"z">>

\* --content: one line, and two paragraphs
ReplaceContents == {LineY, LineX, JoinNl(<<LineY, <<>>, LineZ>>)}

ReplaceCmds ==
    {PatchCmd(h, i, "Replace", Some(c), None, TRUE, FALSE) :
        h \in HeadingArgs, i \in Indexes, c \in ReplaceContents}

InitReplace == Init /\ files[FileF].some

PatchReplace == hist = <<>> /\ \E cmd \in ReplaceCmds : Run(cmd)

NextReplace == PatchReplace \/ Rerun

SpecReplace == InitReplace /\ [][NextReplace]_vars

\* run k is a forced mdp patch --op replace without fingerprint that
\* succeeded, and run k + 1 is the same command line
ReplacedTwice(k) ==
    /\ hist[k].cmd.cmd = "patch"
    /\ hist[k].cmd.op = "Replace"
    /\ hist[k].cmd.force
    /\ ~hist[k].cmd.fingerprint.some
    /\ hist[k].status = "Ok"
    /\ hist[k + 1].cmd = hist[k].cmd

\* the second run succeeded and left the document as the first one left it
SameAgain(k) ==
    /\ hist[k + 1].status = "Ok"
    /\ FsAfter(k + 1).files = FsAfter(k).files

\* C21: Replace is idempotent on re-run.  For every document, heading path,
\* block index and content, a forced Replace followed by the same forced
\* Replace on its result gives that result again.
C21_ReplaceIdempotent ==
    \A k \in 1..(Len(hist) - 1) : ReplacedTwice(k) => SameAgain(k)

\* C21 over the contents of one line
C21_OneLineContent ==
    \A k \in 1..(Len(hist) - 1) :
        (ReplacedTwice(k) /\ ~HasChar(hist[k].cmd.content.v, NL)) => SameAgain(k)

(***************************************************************************)
(* Properties of the parser loop (block specification).                    *)
(***************************************************************************)
\* the number of blocks of a sequence of sections
RECURSIVE BlockCount(_)
BlockCount(sections) ==
    IF sections = <<>> THEN 0
    ELSE Len(sections[1].blocks) + BlockCount(Tail(sections))

\* the loop of parse_sections ended, with no more blocks than lines
EndsWithinLines ==
    /\ rq.sections.kind # "Hang"
    /\ rq.sections.kind = "Ok" => BlockCount(rq.sections.v) <= Len(Lines(rq.content))

\* C22: parse termination.  For every input text parse_sections terminates:
\* every iteration of its loop moves the line cursor forward, so the blocks
\* it produces are no more than the lines of the text.
C22_ParseTerminates == rq.stage = "parsed" => EndsWithinLines

\* a line that is no block quote for parse_block_quote (its first character
\* is not ">") and is one for parse_block (its trimmed text starts with ">")
IndentedQuote(line) == ~StartsWith(line, <<">">>) /\ StartsWith(Trim(line), <<">">>)

\* C22 over the texts without such a line
C22_NoIndentedQuote ==
    (/\ rq.stage = "parsed"
     /\ \A k \in 1..Len(Lines(rq.content)) : ~IndentedQuote(Lines(rq.content)[k]))
    => EndsWithinLines

\* the byte offset of line k (from 1) of a text
LineStart(lines, k) == ConsumedLen(lines, 0, k - 1)

\* the blocks, as <<section, block>> positions, whose byte range holds line k
Covering(sections, lines, k) ==
    {p \in (1..Len(sections)) \X (1..Len(lines)) :
        /\ p[2] <= Len(sections[p[1]].blocks)
        /\ sections[p[1]].blocks[p[2]].start <= LineStart(lines, k)
        /\ LineStart(lines, k) + Len(lines[k]) <= sections[p[1]].blocks[p[2]].end}

\* the heading lines before line k
HeadingsBefore(lines, k) == {h \in 1..(k - 1) : HeadingCaps(lines[h]).matched}

\* line k is in exactly one block, a block of the section that the nearest
\* heading line before it opens
InOneBlock(sections, lines, k) ==
    \E p \in Covering(sections, lines, k) :
        /\ Covering(sections, lines, k) = {p}
        /\ sections[p[1]].heading_start
              = LineStart(lines, SetMax(HeadingsBefore(lines, k)))

\* the blocks of every section are in increasing offset order and do not overlap
BlocksInOrder(sections) ==
    \A s \in 1..Len(sections) :
        \A j \in 1..(Len(sections[s].blocks) - 1) :
            /\ sections[s].blocks[j].start < sections[s].blocks[j + 1].start
            /\ sections[s].blocks[j].end <= sections[s].blocks[j + 1].start

\* the lines the claim is about: not blank and no heading line
ContentLines(lines) ==
    {k \in 1..Len(lines) : Trim(lines[k]) # <<>> /\ ~HeadingCaps(lines[k]).matched}

Partition(sections, lines) ==
    /\ \A k \in ContentLines(lines) :
          IF HeadingsBefore(lines, k) # {} THEN InOneBlock(sections, lines, k)
          ELSE Covering(sections, lines, k) = {}
    /\ BlocksInOrder(sections)

\* C23: blocks partition section content.  Every non-blank line after the
\* first heading that is no heading line is in exactly one block, a block of
\* the section of the nearest heading before it; the blocks of a section are
\* in increasing offset order and do not overlap; the lines before the first
\* heading are in no section.
C23_BlocksPartition ==
    (rq.stage = "parsed" /\ rq.sections.kind = "Ok")
    => Partition(rq.sections.v, Lines(rq.content))

\* C23 over the texts whose lines that start with "#" are all heading lines
\* and whose code fences are closed before the next heading
C23_PlainLines ==
    (/\ rq.stage = "parsed"
     /\ rq.sections.kind = "Ok"
     /\ \A k \in 1..Len(Lines(rq.content)) :
           StartsWith(Lines(rq.content)[k], <<"#">>)
           => HeadingCaps(Lines(rq.content)[k]).matched
     /\ \A b \in ParsedBlocks :
           HeadingLines(Lines(b.content)) = <<>> /\ SpanInText(rq.content, b))
    => Partition(rq.sections.v, Lines(rq.content))

(***************************************************************************)
(* The call specification: apply_operation called on a text, with any     *)
(* PatchOperation, one without content among them, and either mode.  rq   *)
(* is the call and then what it returned.                                  *)
(***************************************************************************)
\* the texts: up to MaxLines lines of headings, a paragraph, blank lines
CallDocs == {JoinNl(ls) : ls \in SeqsUpTo({LineA, LineS, LineX, <<>>}, MaxLines)}

\* heading_path: empty, a heading, a parent and a child, a heading of no text
CallPaths == {<<>>, <<LineA>>, <<LineA, LineS>>, <<LineB>>}

\* operation and content
CallOps ==
    {[op |-> "Append", content |-> Some(LineY)], [op |-> "Append", content |-> None],
     [op |-> "Replace", content |-> Some(LineY)], [op |-> "Replace", content |-> None],
     [op |-> "Delete", content |-> None]}

\* fingerprint: none, one that matches x, one that matches no block, and one
\* that is no regular expression
CallFingerprints == Fingerprints \cup {Some(<<"*">>)}

InitCall ==
    /\ files = [n \in FileNames |-> None]
    /\ bak = [n \in FileNames |-> None]
    /\ tmp = [n \in FileNames |-> None]
    /\ hist = <<>>
    /\ rq \in {[stage |-> "call", content |-> t,
                operation |-> PatchOperation(FileF, h, i, o.op, o.content, p),
                force |-> force] :
                  t \in CallDocs, h \in CallPaths, i \in Indexes, o \in CallOps,
                  p \in CallFingerprints, force \in BOOLEAN}

ApplyOperation ==
    /\ rq.stage = "call"
    /\ rq' = [stage |-> "returned", call |-> Call(rq.content, rq.operation, rq.force)]
    /\ UNCHANGED <<files, bak, tmp, hist>>

NextCall == ApplyOperation

SpecCall == InitCall /\ [][NextCall]_vars

\* what a call returns when the checks after the block is resolved are made
\* in the order fingerprint, destructive gate, content, and the first that
\* fails is reported
FirstFailure(call) ==
    LET operation == call.operation
    IN  IF operation.fingerprint.some /\ ~ValidRegex(operation.fingerprint.v)
        THEN call.result = Err([kind |-> "InvalidRegex"])
        ELSE IF /\ operation.fingerprint.some
                /\ ~IsMatch(operation.fingerprint.v, call.block.v.content)
        THEN call.result = Err([kind |-> "FingerprintMismatch",
                                fingerprint |-> operation.fingerprint.v])
        ELSE IF /\ operation.operation \in {"Replace", "Delete"}
                /\ ~operation.fingerprint.some
                /\ ~call.force
        THEN call.result = Err([kind |-> "UnsafeDestructiveOperation"])
        ELSE IF operation.operation \in {"Append", "Replace"} /\ ~operation.content.some
        THEN call.result = Err([kind |-> "MissingContent", op |-> operation.operation])
        ELSE call.result.kind # "Err"

\* what a call returns when the heading path or the block index fails
ResolutionFailure(call) ==
    LET sections == parse_sections(call.content).v
        section  == find_section(sections, call.operation.heading_path)
    IN  /\ call.result = call.block
        /\ IF section.kind = "Err" THEN call.result = section
           ELSE call.result.err.kind = "BlockIndexOutOfRange"

\* C24: precondition order.  apply_operation checks heading resolution, block
\* index, fingerprint match, destructive gate and content presence in this
\* order and reports the first check that fails: a Replace or Delete with a
\* fingerprint that does not match and without force fails with
\* FingerprintMismatch, and UnsafeDestructiveOperation is never raised when a
\* fingerprint is supplied or force is set.
C24_PreconditionOrder ==
    rq.stage = "returned"
    => /\ IF rq.call.block.kind = "Err" THEN ResolutionFailure(rq.call)
          ELSE FirstFailure(rq.call)
       /\ rq.call.result = Err([kind |-> "UnsafeDestructiveOperation"])
          => ~rq.call.operation.fingerprint.some /\ ~rq.call.force

\* a Replace without content and without force, of a block that resolves,
\* with a fingerprint that does not match: FingerprintMismatch is reported
C24_Witness ==
    /\ rq.stage = "returned"
    /\ rq.call.block.kind = "Ok"
    /\ rq.call.operation.operation = "Replace"
    /\ ~rq.call.operation.content.some
    /\ ~rq.call.force
    /\ rq.call.operation.fingerprint.some
    /\ rq.call.result.kind = "Err"
    /\ rq.call.result.err.kind = "FingerprintMismatch"

(***************************************************************************)
(* The delete specification: a text with runs of blank lines is parsed and *)
(* one of its blocks is deleted.                                           *)
(***************************************************************************)
MaxDeleteLines == 5

DeleteDocs == {JoinNl(ls) : ls \in SeqsUpTo({LineA, LineX, <<>>}, MaxDeleteLines)}

InitDelete ==
    /\ files \in {[n \in FileNames |-> IF n = FileF THEN Some(d) ELSE Some(DocG)] :
                     d \in DeleteDocs}
    /\ bak = [n \in FileNames |-> None]
    /\ tmp = [n \in FileNames |-> None]
    /\ hist = <<>>
    /\ rq = NoQuery

NextDelete == ParseDocument \/ DeleteBlock

SpecDelete == InitDelete /\ [][NextDelete]_vars

\* the end of the text before the block and the newlines directly before it
FrameStart(t, b) == b.start - TrailRun(Take(t, b.start), {NL})

\* the start of the text after the block and the newlines directly after it
FrameEnd(t, b) == b.end + LeadRun(Drop(t, b.end), {NL})

\* r is t with its bytes from lo to hi replaced by newlines, if by anything
OnlyBetween(t, r, lo, hi) ==
    \E n \in 0..Len(r) : r = Take(t, lo) \o [k \in 1..n |-> NL] \o Drop(t, hi)

\* C25: delete frame.  Delete changes only the byte range of the block and
\* the run of newlines next to it: every byte outside the deleted range and
\* outside the newlines directly around it is kept, unchanged and in order.
C25_DeleteFrame ==
    (rq.stage = "deleted" /\ rq.result.kind = "Ok")
    => OnlyBetween(rq.content, rq.result.v, FrameStart(rq.content, rq.block),
                   FrameEnd(rq.content, rq.block))

\* three newlines in a row
NL3 == <<NL, NL, NL>>

\* C25 over the texts that have no run of three newlines away from the block
C25_NoOtherRun ==
    (/\ rq.stage = "deleted"
     /\ rq.result.kind = "Ok"
     /\ ~Contains(Take(rq.content, FrameStart(rq.content, rq.block)), NL3)
     /\ ~Contains(Drop(rq.content, FrameEnd(rq.content, rq.block)), NL3))
    => OnlyBetween(rq.content, rq.result.v, FrameStart(rq.content, rq.block),
                   FrameEnd(rq.content, rq.block))

(***************************************************************************)
(* The batch specification: one mdp apply whose operations target the     *)
(* same file, or two files.                                                *)
(***************************************************************************)
\* two appends and a delete at the first block of # A of file f, and an
\* append to file g
SameFileOps ==
    {OperationConfig(FileF, <<LineA>>, 0, "Append", Some(LineY), None),
     OperationConfig(FileF, <<LineA>>, 0, "Append", Some(LineZ), None),
     OperationConfig(FileF, <<LineA>>, 0, "Delete", None, None),
     OperationConfig(FileG, <<LineA>>, 0, "Append", Some(LineY), None)}

SameFileCmds ==
    {[cmd |-> "apply", operations |-> b, force |-> force, no_backup |-> FALSE] :
        b \in SeqsUpTo(SameFileOps, MaxBatch) \ {<<>>}, force \in BOOLEAN}

InitBatch == Init /\ files[FileF].some

ApplyBatch == hist = <<>> /\ \E cmd \in SameFileCmds : Run(cmd)

NextBatch == ApplyBatch

SpecBatch == InitBatch /\ [][NextBatch]_vars

\* The text of file f after the operations of the calls that target f, each
\* applied in force mode to the text the one before it left.
RECURSIVE InTurn(_, _, _)
\* one operation, from the result r of apply_operation on
InTurnStep(r, calls, f) ==
    IF r.kind # "Applied" THEN r ELSE InTurn(r.new_content, Tail(calls), f)

InTurn(content, calls, f) ==
    IF calls = <<>> THEN Ok(content)
    ELSE IF Head(calls).operation.file # f THEN InTurn(content, Tail(calls), f)
    ELSE InTurnStep(apply_operation(content, Head(calls).operation, TRUE), calls, f)

\* run k is a forced mdp apply in which every operation validated
ForcedBatchDone(k) ==
    /\ hist[k].cmd.cmd = "apply"
    /\ hist[k].cmd.force
    /\ hist[k].status = "Ok"

\* after run k file f holds what its operations give one after the other,
\* when they can be applied so
EveryOperationIn(k, f) ==
    \A seq \in {InTurn(hist[k].pre.files[f].v, hist[k].calls, f)} :
        seq.kind = "Ok" => FsAfter(k).files[f].v = seq.v

\* C26: no lost update in a batch.  After a forced batch in which every
\* operation validated, the content of each target file reflects every
\* operation of the batch on that file: with two operations on one file, the
\* effect of the earlier is still there after the later is written.
C26_NoLostUpdate ==
    \A k \in 1..Len(hist) :
        ForcedBatchDone(k)
        => \A f \in FileNames : hist[k].pre.files[f].some => EveryOperationIn(k, f)

\* no two operations of the batch of run k target the same file
OneOperationEach(k) ==
    \A i, j \in 1..Len(hist[k].cmd.operations) :
        i # j => hist[k].cmd.operations[i].file # hist[k].cmd.operations[j].file

\* C26 over the batches with at most one operation for each file
C26_OneOperationEach ==
    \A k \in 1..Len(hist) :
        (ForcedBatchDone(k) /\ OneOperationEach(k))
        => \A f \in FileNames : hist[k].pre.files[f].some => EveryOperationIn(k, f)

(***************************************************************************)
(* The append specification: a text of several sections is parsed and a   *)
(* content is appended after one of its blocks.                            *)
(***************************************************************************)
MaxAppendLines == 4

AppendDocs == {JoinNl(ls) : ls \in SeqsUpTo({LineA, LineB, LineX, LineY}, MaxAppendLines)}

InitAppend ==
    /\ files \in {[n \in FileNames |-> IF n = FileF THEN Some(d) ELSE Some(DocG)] :
                     d \in AppendDocs}
    /\ bak = [n \in FileNames |-> None]
    /\ tmp = [n \in FileNames |-> None]
    /\ hist = <<>>
    /\ rq = NoQuery

NextAppend == ParseDocument \/ AppendBlock

SpecAppend == InitAppend /\ [][NextAppend]_vars

\* the sections of the text t that hold the block b
SectionsWith(t, b) ==
    {s \in 1..Len(parse_sections(t).v) :
        \E j \in 1..Len(parse_sections(t).v[s].blocks) : parse_sections(t).v[s].blocks[j] = b}

\* the offset in t of the heading line after section s, or the end of t
SectionEnd(t, s) ==
    IF s < Len(parse_sections(t).v) THEN parse_sections(t).v[s + 1].heading_start
    ELSE Len(t)

\* in the result r of an Append to t, c is between the start of b and the
\* heading line that followed section s in t
InSection(t, r, b, s, c) ==
    Contains(SubSeq(r, b.start + 1, SectionEnd(t, s) + Len(r) - Len(t)), c)

\* C27: append post-condition.  After an Append that succeeded, the content is
\* inside the span of the target section: after the start of the target
\* block and before the heading line that followed the section in the
\* original text, or the end of the text.  An Append is never skipped for a
\* content that is present in a later section only.
C27_AppendInSection ==
    (rq.stage = "appended" /\ rq.result.kind = "Ok")
    => \A s \in SectionsWith(rq.content, rq.block) :
          InSection(rq.content, rq.result.v, rq.block, s, rq.new_content.v)

\* C27 over the appends of a content that no later section holds
C27_NotInLaterSection ==
    (rq.stage = "appended" /\ rq.result.kind = "Ok")
    => \A s \in SectionsWith(rq.content, rq.block) :
          ~Contains(Drop(rq.content, SectionEnd(rq.content, s)), rq.new_content.v)
          => InSection(rq.content, rq.result.v, rq.block, s, rq.new_content.v)

====
